---------------------------- MODULE Spec2Model ----------------------------
(***************************************************************************)
(* A model of the robot repository's entity/component core:                *)
(*   - SparseSet<EntityCount>            (src/src/sparse_set.hpp)           *)
(*   - Component<T, MaxEntities>         (src/src/component.hpp)            *)
(*   - Components<ComponentTypes...>     (src/src/components.hpp)           *)
(*   - the systems and the two threads   (src/src/systems.hpp,              *)
(*     of runMainloop                     src/src/mainloop.hpp, rest.hpp)   *)
(*   - Polygon::intersects on its own    (src/src/component_types.hpp)      *)
(*   - buildProceduralAssets             (src/src/assets.hpp)               *)
(*                                                                         *)
(* Conventions.  C++ vectors are 0-based, TLA+ sequences 1-based: the      *)
(* element the code calls data[i] is data[i + 1] here, and the sparse      *)
(* array keeps the code's 0-based indices.  static_cast<size_t>(-1), the   *)
(* "absent" mark of the sparse array, is NONE.  Float coordinates are      *)
(* integers; the result of a float addition or subtraction is rounded to  *)
(* the nearest float (FloatRound), which leaves small integers exact.      *)
(***************************************************************************)
EXTENDS Integers, Sequences, FiniteSets, TLC

\* The template parameter EntityCount / MaxEntities (1000 by default in the
\* code), scaled down: ids 0 .. EntityCount-1 are in range.
EntityCount == 3
\* How many ticks the main loop runs, and how many requests arrive.
MaxTicks == 2
MaxRequests == 2
\* How many distinct component values the Component harness draws from.
NumValues == 2
\* How many surplus values (duplicate inserts) the Component harness allows.
MaxSurplus == 1
\* How many calls the registry harness makes.
MaxRegCalls == 3
\* The number of values of HitCounter::hits, a std::uint32_t (2^32 in the
\* code), scaled down so that a few ticks reach its end.
HitsModulus == 4

\* The number of significand bits of a float (24 in the code), scaled down
\* so that floats too large to be moved by the world's width are at hand.
MantissaBits == 12

\* How many times scene generation is called on one store.
MaxBuilds == 2

\* static_cast<std::size_t>(-1)
NONE == -1

\* Ids and indices handed to the calls: all in-range ones and one beyond.
Args == 0 .. EntityCount
InRange == 0 .. (EntityCount - 1)
Values == 1 .. NumValues

VARIABLES
    sset,      \* the SparseSet under test: [dataIndex, data]
    scall,     \* the last call on it: [op, arg, outcome, ret]
    sbefore,   \* the SparseSet as it was before the last call
    spresent,  \* reference model: the set of ids inserted and not erased since
    comp,      \* the Component<T> under test: [entities, data]
    ccall,     \* the last call on it: [op, arg, val, outcome, ret]
    cbefore,   \* the Component as it was before the last call
    cstored,   \* reference model: id -> the value last stored for it, or NONE
    cdup,      \* TRUE once a present id was inserted again (until clear)
    store,       \* the EntityStore of runMainloop: one Component per type
    store_mutex, \* who holds std::mutex store_mutex: "free", "sim" or "net"
    stop,        \* stop_source.stop_requested()
    simpc,       \* where the main-loop thread is
    netpc,       \* where the REST thread (one io_context, one handler at a time) is
    req,         \* the request the REST thread is handling
    scene,       \* handle_output's geometries array, as built so far
    resp,        \* the status of the last response sent
    ticks,       \* completed ticks
    nreq,        \* requests received
    tickBase,    \* the store as the last completed tick or accepted input left it
    reg,       \* the Components<...> registry under test: kind -> Component
    rcall,     \* the last call made through it: [kind, op, arg, val, outcome]
    rbefore,   \* the registry as it was before the last call
    rcount,    \* calls made through it so far
    pcall,     \* the last narrow-phase call: [this, other, outcome]
    built      \* calls of buildProceduralAssets made on store so far

svars == <<sset, scall, sbefore, spresent>>
cvars == <<comp, ccall, cbefore, cstored, cdup>>
yvars == <<store, store_mutex, stop, simpc, netpc, req, scene, resp, ticks,
           nreq, tickBase>>
rvars == <<reg, rcall, rbefore, rcount>>
vars == <<svars, cvars, yvars, rvars, pcall, built>>

\* What a call on the SparseSet harness, a call on the Component harness, a
\* step of the two threads and a call on the registry harness leave alone.
SetFrame == UNCHANGED <<cvars, yvars, rvars, pcall, built>>
StoreFrame == UNCHANGED <<svars, yvars, rvars, pcall, built>>
SysFrame == UNCHANGED <<svars, cvars, rvars, pcall, built>>
RegFrame == UNCHANGED <<svars, cvars, yvars, pcall, built>>

(***************************************************************************)
(* SparseSet                                                               *)
(***************************************************************************)

\* SparseSet(): the sparse array holds EntityCount absent marks, the dense
\* array is empty.
SparseSet_new ==
    [dataIndex |-> [i \in InRange |-> NONE], data |-> <<>>]

SparseSet_size(s) == Len(s.data)

SparseSet_empty(s) == Len(s.data) = 0

\* clear(): dataIndex.assign(EntityCount, -1); data.clear().
SparseSet_clear(s) ==
    [dataIndex |-> [i \in InRange |-> NONE], data |-> <<>>]

\* contains(value): false beyond the sparse array, else the mark test.
SparseSet_contains(s, value) ==
    IF EntityCount <= value THEN FALSE ELSE s.dataIndex[value] # NONE

\* How a call with an id argument checked by assert(value < EntityCount) and
\* then by "if (dataIndex.size() <= value) throw" can end.  With assertions
\* compiled in the assert aborts the process first; with NDEBUG the throw is
\* reached.  Both builds are possible.
AssertThenThrow(value) ==
    IF value < EntityCount THEN {"ok"} ELSE {"abort", "out_of_range"}

\* How a call guarded only by "if (arg >= limit) throw" can end.
ThrowOnly(arg, limit) ==
    IF arg < limit THEN {"ok"} ELSE {"out_of_range"}

\* Mutant of insert: the "already present" test is missing.
SparseSet_insert_NoDedup(s, value) ==
    LET pushed == Append(s.data, value)
    IN [dataIndex |-> [s.dataIndex EXCEPT ![value] = Len(pushed) - 1],
        data |-> pushed]

\* The body of insert(value) after its range checks.
SparseSet_insert(s, value) ==
    IF s.dataIndex[value] # NONE
    THEN s
    ELSE LET pushed == Append(s.data, value)
         IN [dataIndex |-> [s.dataIndex EXCEPT ![value] = Len(pushed) - 1],
             data |-> pushed]

\* Mutant of erase: the dense elements after the removed one each move down
\* one slot (the dense order is kept) instead of the last one being moved.
SparseSet_erase_KeepsOrder(s, value) ==
    LET index == s.dataIndex[value]
    IN IF index = NONE
       THEN s
       ELSE [dataIndex |-> [e \in InRange |->
                               IF e = value \/ s.dataIndex[e] = NONE THEN NONE
                               ELSE IF s.dataIndex[e] > index THEN s.dataIndex[e] - 1
                               ELSE s.dataIndex[e]],
             data |-> [k \in 1 .. (Len(s.data) - 1) |->
                          IF k <= index THEN s.data[k] ELSE s.data[k + 1]]]

\* Mutant of erase: the moved element's sparse entry is not fixed.
SparseSet_erase_NoFix(s, value) ==
    LET index == s.dataIndex[value]
    IN IF index = NONE
       THEN s
       ELSE LET lastValue == s.data[Len(s.data)]
                moved == [s.data EXCEPT ![index + 1] = lastValue]
            IN [dataIndex |-> [s.dataIndex EXCEPT ![value] = NONE],
                data |-> SubSeq(moved, 1, Len(moved) - 1)]

\* Mutant of erase: value is marked absent before, not after, the moved
\* element's sparse entry is written.
SparseSet_erase_MarkFirst(s, value) ==
    LET index == s.dataIndex[value]
    IN IF index = NONE
       THEN s
       ELSE LET lastValue == s.data[Len(s.data)]
                moved == [s.data EXCEPT ![index + 1] = lastValue]
                dataIndex1 == [s.dataIndex EXCEPT ![value] = NONE]
            IN [dataIndex |-> [dataIndex1 EXCEPT ![lastValue] = index],
                data |-> SubSeq(moved, 1, Len(moved) - 1)]

\* Mutant of erase: the early return for an absent value is missing, so the
\* pop_back runs whenever the dense array is not empty.
SparseSet_erase_NoEarlyReturn(s, value) ==
    LET index == s.dataIndex[value]
    IN IF Len(s.data) = 0
       THEN s
       ELSE LET lastValue == s.data[Len(s.data)]
                moved == IF index = NONE THEN s.data
                         ELSE [s.data EXCEPT ![index + 1] = lastValue]
                dataIndex1 == [s.dataIndex EXCEPT ![lastValue] = index]
            IN [dataIndex |-> [dataIndex1 EXCEPT ![value] = NONE],
                data |-> SubSeq(moved, 1, Len(moved) - 1)]

\* The body of erase(value) after its range checks: swap with the last dense
\* element, fix its sparse entry, pop, mark value absent.
SparseSet_erase(s, value) ==
    LET index == s.dataIndex[value]
    IN IF index = NONE
       THEN s
       ELSE LET lastValue == s.data[Len(s.data)]
                moved == [s.data EXCEPT ![index + 1] = lastValue]
                dataIndex1 == [s.dataIndex EXCEPT ![lastValue] = index]
            IN [dataIndex |-> [dataIndex1 EXCEPT ![value] = NONE],
                data |-> SubSeq(moved, 1, Len(moved) - 1)]

\* indexFor(entityId) after its range check: the raw sparse entry.
SparseSet_indexFor(s, entityId) == s.dataIndex[entityId]

\* idFor(index) after its range check.
SparseSet_idFor(s, index) == s.data[index + 1]

\* A range-for over a SparseSet: the elements from data.begin() to
\* data.end(), in that order.
SparseSet_iterate(s) == [k \in 1 .. Len(s.data) |-> s.data[k]]

(***************************************************************************)
(* Component<T, MaxEntities>: a SparseSet of ids (entities) and a parallel *)
(* dense vector of values (data).                                          *)
(***************************************************************************)

\* Component(): both empty.
Component_new == [entities |-> SparseSet_new, data |-> <<>>]

\* Mutant of insert: the value is put at the front of the value array.
Component_insert_Front(c, entity, value) ==
    [entities |-> SparseSet_insert(c.entities, entity),
     data |-> <<value>> \o c.data]

\* The body of insert(entity, value) / emplace(entity, args...) once
\* entities.insert(entity) has passed its range checks: the id is registered
\* (a no-op when present), the value is appended in every case.
Component_insert(c, entity, value) ==
    [entities |-> SparseSet_insert(c.entities, entity),
     data |-> Append(c.data, value)]

Component_contains(c, entity) == SparseSet_contains(c.entities, entity)

Component_size(c) == SparseSet_size(c.entities)

Component_empty(c) == SparseSet_empty(c.entities)

\* Mutant of erase: the last value is popped without the swap.
Component_erase_NoSwap(c, entity) ==
    IF ~SparseSet_contains(c.entities, entity)
    THEN c
    ELSE [entities |-> SparseSet_erase(c.entities, entity),
          data |-> SubSeq(c.data, 1, Len(c.data) - 1)]

\* erase(entity): nothing when absent (also when out of range: contains is
\* false there); else swap data[index] with data.back() unless it is the
\* last, pop, and erase the id from the SparseSet.
Component_erase(c, entity) ==
    IF ~SparseSet_contains(c.entities, entity)
    THEN c
    ELSE LET index == SparseSet_indexFor(c.entities, entity)
             swapped == IF index < Len(c.data) - 1
                        THEN [c.data EXCEPT ![index + 1] = c.data[Len(c.data)],
                                            ![Len(c.data)] = c.data[index + 1]]
                        ELSE c.data
         IN [entities |-> SparseSet_erase(c.entities, entity),
             data |-> SubSeq(swapped, 1, Len(swapped) - 1)]

\* Mutant of clear: the value vector is not cleared.
Component_clear_KeepsData(c) ==
    [entities |-> SparseSet_clear(c.entities), data |-> c.data]

\* clear(): entities.clear(); data.clear().
Component_clear(c) == [entities |-> SparseSet_clear(c.entities), data |-> <<>>]

\* What a read of an element of the value vector outside its bounds can
\* give when it does not crash: any bit pattern of T, a stored value or the
\* default value 0 among them.
Garbage == Values \cup {0}

\* get(entity) / operator[](entity): data[entities.indexFor(entity)], as the
\* set of <<outcome, value>> it can end with.  indexFor throws for an id
\* beyond the sparse array.  For an absent id in range indexFor returns
\* size_t(-1) and std::vector::operator[] is not bounds-checked: undefined
\* behaviour, which crashes or yields whatever lies there.
Component_get(c, entity) ==
    IF entity >= EntityCount
    THEN {<<"out_of_range", NONE>>}
    ELSE LET index == SparseSet_indexFor(c.entities, entity)
         IN IF index \in 0 .. (Len(c.data) - 1)
            THEN {<<"ok", c.data[index + 1]>>}
            ELSE {<<"crash", NONE>>} \cup {<<"ub_value", g>> : g \in Garbage}

\* The value get(entity) refers to, for an entity whose index is in bounds.
Component_at(c, entity) == c.data[SparseSet_indexFor(c.entities, entity) + 1]

\* components[entity] = value, for a present entity.
Component_assign(c, entity, value) ==
    [c EXCEPT !.data[SparseSet_indexFor(c.entities, entity) + 1] = value]

\* A range-for over a Component, as the set of <<outcome, pairs>> it can end
\* with: begin() and end() zip the iterators of the id array and of the value
\* array, so the walk pairs the k-th id with the k-th value.  When the value
\* array is the longer one (after a duplicate insert) the zipped iterator
\* either stops with the id array or never compares equal to end() and runs
\* past the end of the id array: undefined behaviour.
Component_iterate(c) ==
    LET n == Len(c.entities.data)
        pairs == [k \in 1 .. n |-> <<c.entities.data[k], c.data[k]>>]
    IN IF Len(c.data) = n
       THEN {<<"ok", pairs>>}
       ELSE {<<"ok", pairs>>, <<"crash", <<>>>>}

(***************************************************************************)
(* The Component harness.  Writes through operator[] are made for present  *)
(* ids only, as every caller in the repository does (systems.hpp checks    *)
(* contains first); reads are made for every id.                           *)
(***************************************************************************)

CCall(op, arg, val, outcome, ret) ==
    [op |-> op, arg |-> arg, val |-> val, outcome |-> outcome, ret |-> ret]

InitStore ==
    /\ comp = Component_new
    /\ ccall = CCall("new", NONE, NONE, "ok", NONE)
    /\ cbefore = Component_new
    /\ cstored = [id \in InRange |-> NONE]
    /\ cdup = FALSE

StoreAlive == ccall.outcome \notin {"abort", "crash"}

\* insert (copy and move overloads) and emplace share one body.
CompPut(op, entity, value) ==
    /\ StoreAlive
    /\ StoreFrame
    /\ Len(comp.data) < EntityCount + MaxSurplus
    /\ \E o \in AssertThenThrow(entity) :
          /\ ccall' = CCall(op, entity, value, o, NONE)
          /\ comp' = IF o = "ok" THEN Component_insert(comp, entity, value) ELSE comp
          /\ cstored' = IF o = "ok" /\ ~Component_contains(comp, entity)
                        THEN [cstored EXCEPT ![entity] = value]
                        ELSE cstored
          /\ cdup' = (cdup \/ (o = "ok" /\ Component_contains(comp, entity)))
    /\ cbefore' = comp

CompInsert(entity, value) == CompPut("insert", entity, value)

CompEmplace(entity, value) == CompPut("emplace", entity, value)

CompErase(entity) ==
    /\ StoreAlive
    /\ StoreFrame
    /\ ccall' = CCall("erase", entity, NONE, "ok", NONE)
    /\ comp' = Component_erase(comp, entity)
    /\ cstored' = IF entity \in InRange THEN [cstored EXCEPT ![entity] = NONE]
                  ELSE cstored
    /\ cbefore' = comp
    /\ UNCHANGED cdup

CompGet(entity) ==
    /\ StoreAlive
    /\ StoreFrame
    /\ \E r \in Component_get(comp, entity) :
          ccall' = CCall("get", entity, NONE, r[1], r[2])
    /\ cbefore' = comp
    /\ UNCHANGED <<comp, cstored, cdup>>

CompAssign(entity, value) ==
    /\ StoreAlive
    /\ StoreFrame
    /\ Component_contains(comp, entity)
    /\ ccall' = CCall("assign", entity, value, "ok", NONE)
    /\ comp' = Component_assign(comp, entity, value)
    /\ cstored' = [cstored EXCEPT ![entity] = value]
    /\ cbefore' = comp
    /\ UNCHANGED cdup

CompClear ==
    /\ StoreAlive
    /\ StoreFrame
    /\ ccall' = CCall("clear", NONE, NONE, "ok", NONE)
    /\ comp' = Component_clear(comp)
    /\ cstored' = [id \in InRange |-> NONE]
    /\ cdup' = FALSE
    /\ cbefore' = comp

NextStore ==
    \/ \E entity \in Args, value \in Values : CompInsert(entity, value)
    \/ \E entity \in Args, value \in Values : CompEmplace(entity, value)
    \/ \E entity \in Args : CompErase(entity)
    \/ \E entity \in Args : CompGet(entity)
    \/ \E entity \in Args, value \in Values : CompAssign(entity, value)
    \/ CompClear

(***************************************************************************)
(* The SparseSet harness: one action per public call, ids drawn from Args. *)
(* A call that aborts the process ends the run.                            *)
(***************************************************************************)

Call(op, arg, outcome, ret) ==
    [op |-> op, arg |-> arg, outcome |-> outcome, ret |-> ret]

InitSet ==
    /\ sset = SparseSet_new
    /\ scall = Call("new", NONE, "ok", NONE)
    /\ sbefore = SparseSet_new
    /\ spresent = {}

SetAlive == scall.outcome # "abort"

SetInsert(value) ==
    /\ SetAlive
    /\ SetFrame
    /\ \E o \in AssertThenThrow(value) :
          /\ scall' = Call("insert", value, o, NONE)
          /\ sset' = IF o = "ok" THEN SparseSet_insert(sset, value) ELSE sset
          /\ spresent' = IF o = "ok" THEN spresent \cup {value} ELSE spresent
    /\ sbefore' = sset

SetErase(value) ==
    /\ SetAlive
    /\ SetFrame
    /\ \E o \in AssertThenThrow(value) :
          /\ scall' = Call("erase", value, o, NONE)
          /\ sset' = IF o = "ok" THEN SparseSet_erase(sset, value) ELSE sset
          /\ spresent' = IF o = "ok" THEN spresent \ {value} ELSE spresent
    /\ sbefore' = sset

SetClear ==
    /\ SetAlive
    /\ SetFrame
    /\ scall' = Call("clear", NONE, "ok", NONE)
    /\ sset' = SparseSet_clear(sset)
    /\ spresent' = {}
    /\ sbefore' = sset

SetContains(value) ==
    /\ SetAlive
    /\ SetFrame
    /\ scall' = Call("contains", value, "ok", SparseSet_contains(sset, value))
    /\ sbefore' = sset
    /\ UNCHANGED <<sset, spresent>>

SetIndexFor(entityId) ==
    /\ SetAlive
    /\ SetFrame
    /\ \E o \in ThrowOnly(entityId, EntityCount) :
          scall' = Call("indexFor", entityId, o,
                        IF o = "ok" THEN SparseSet_indexFor(sset, entityId) ELSE NONE)
    /\ sbefore' = sset
    /\ UNCHANGED <<sset, spresent>>

SetIdFor(index) ==
    /\ SetAlive
    /\ SetFrame
    /\ \E o \in ThrowOnly(index, SparseSet_size(sset)) :
          scall' = Call("idFor", index, o,
                        IF o = "ok" THEN SparseSet_idFor(sset, index) ELSE NONE)
    /\ sbefore' = sset
    /\ UNCHANGED <<sset, spresent>>

NextSet ==
    \/ \E value \in Args : SetInsert(value)
    \/ \E value \in Args : SetErase(value)
    \/ SetClear
    \/ \E value \in Args : SetContains(value)
    \/ \E entityId \in Args : SetIndexFor(entityId)
    \/ \E index \in Args : SetIdFor(index)

(***************************************************************************)
(* Component types (component_types.hpp, math.hpp) and the EntityStore.    *)
(* A Vec2 is [x, y]; a Polygon is [vertices_x, vertices_y].                *)
(***************************************************************************)

Vec2(x, y) == [x |-> x, y |-> y]

\* Polygon(std::initializer_list<Vec2>): the vertices split into two vectors.
Polygon(vertices) ==
    [vertices_x |-> [k \in 1 .. Len(vertices) |-> vertices[k].x],
     vertices_y |-> [k \in 1 .. Len(vertices) |-> vertices[k].y]]

Polygon_size(poly) == Len(poly.vertices_x)

SeqMin(q) == CHOOSE m \in {q[k] : k \in 1 .. Len(q)} : \A k \in 1 .. Len(q) : m <= q[k]
SeqMax(q) == CHOOSE m \in {q[k] : k \in 1 .. Len(q)} : \A k \in 1 .. Len(q) : m >= q[k]

\* get_aabb(): the extrema of the polygon's own (local) vertices.
Polygon_get_aabb(poly) ==
    [min |-> Vec2(SeqMin(poly.vertices_x), SeqMin(poly.vertices_y)),
     max |-> Vec2(SeqMax(poly.vertices_x), SeqMax(poly.vertices_y))]

\* AxisAlignedBoundingBox::intersects
AABB_intersects(a, b) ==
    ~(a.max.x < b.min.x \/ a.min.x > b.max.x \/ a.max.y < b.min.y \/ a.min.y > b.max.y)

\* may_intersect({other}): handleCollisions passes a one-element list.
Polygon_may_intersect(poly, other) ==
    AABB_intersects(Polygon_get_aabb(poly), Polygon_get_aabb(other))

\* get_edge_normal(i), for an edge index i (0-based) below the vertex count.
Polygon_get_edge_normal(poly, i) ==
    LET vertex_count == Polygon_size(poly)
        edge_x == poly.vertices_x[((i + 1) % vertex_count) + 1] - poly.vertices_x[i + 1]
        edge_y == poly.vertices_y[((i + 1) % vertex_count) + 1] - poly.vertices_y[i + 1]
    IN Vec2(-edge_y, edge_x)

\* project_onto_axis(poly, normal): <<min, max>> of the vertices' projections.
Polygon_project_onto_axis(poly, normal) ==
    LET proj == [k \in 1 .. Polygon_size(poly) |->
                    normal.x * poly.vertices_x[k] + normal.y * poly.vertices_y[k]]
    IN <<SeqMin(proj), SeqMax(proj)>>

\* One round of the lambda checkSeparationWith(poly) of this->intersects(other):
\* for every i below poly.size() the normal of THIS polygon's edge i is the
\* axis.  TRUE when no axis separates.  Defined for poly.size() up to
\* this.size(); the scenes below keep all polygons the same size.
Polygon_checkSeparationWith(this, other, poly) ==
    \A i \in 0 .. (Polygon_size(poly) - 1) :
       LET normal == Polygon_get_edge_normal(this, i)
           a == Polygon_project_onto_axis(this, normal)
           b == Polygon_project_onto_axis(other, normal)
       IN ~(a[2] < b[1] \/ b[2] < a[1])

\* intersects(other)
Polygon_intersects(this, other) ==
    /\ Polygon_checkSeparationWith(this, other, this)
    /\ Polygon_checkSeparationWith(this, other, other)

RECURSIVE SeparationFrom(_, _, _, _)
\* The loop of checkSeparationWith(poly) from edge index i on, n being
\* poly.size(), as [end, index]: "separated" when the axis of edge index
\* separates (return false), "none" when the loop runs out (return true, the
\* last edge index used being n - 1), and "overrun" when get_edge_normal is
\* called with an index that is not below this polygon's vertex count, where
\* it reads vertices_x[index] and vertices_y[index] past the end.
SeparationFrom(this, other, n, i) ==
    IF i >= n THEN [end |-> "none", index |-> n - 1]
    ELSE IF i >= Polygon_size(this) THEN [end |-> "overrun", index |-> i]
    ELSE LET normal == Polygon_get_edge_normal(this, i)
             a == Polygon_project_onto_axis(this, normal)
             b == Polygon_project_onto_axis(other, normal)
         IN IF a[2] < b[1] \/ b[2] < a[1]
            THEN [end |-> "separated", index |-> i]
            ELSE SeparationFrom(this, other, n, i + 1)

\* this.intersects(other) for polygons of any two vertex counts above 0, as
\* [results, index]: the results the call can have and the largest edge
\* index it passes to get_edge_normal.  The round over other.size() is made
\* only when the round over this.size() found no separation.  A read past
\* the end of the vertex vectors is undefined behaviour: the call crashes or
\* goes on with whatever it read, to either result.
Polygon_intersects_call(this, other) ==
    LET first == SeparationFrom(this, other, Polygon_size(this), 0)
        second == SeparationFrom(this, other, Polygon_size(other), 0)
    IN IF first.end = "separated"
       THEN [results |-> {"false"}, index |-> first.index]
       ELSE [results |-> CASE second.end = "separated" -> {"false"}
                           [] second.end = "none" -> {"true"}
                           [] OTHER -> {"crash", "false", "true"},
             index |-> IF second.index > first.index THEN second.index
                       ELSE first.index]

\* EntityStore = Components<Position, Velocity, PlayerInput, HitCounter,
\* Polygon>: a tuple of five Component stores, one per template argument.
\* The systems below are modelled with get<T>() giving the element declared
\* for T; the lookup by type that get<T>() really performs is Components_get.
EntityStore_new ==
    [Position |-> Component_new, Velocity |-> Component_new,
     PlayerInput |-> Component_new, HitCounter |-> Component_new,
     Polygon |-> Component_new]

\* hits += 1 on a std::uint32_t: unsigned arithmetic wraps to 0 past the
\* largest value.
HitCounter_increment(hits) == (hits + 1) % HitsModulus

(***************************************************************************)
(* The systems (systems.hpp).  A range-for over a Component walks its id   *)
(* array and its value array in step, from index 0.                        *)
(***************************************************************************)

WORLD_MIN_X == -120
WORLD_MAX_X == 120
WORLD_MIN_Y == -120
WORLD_MAX_Y == 120

RECURSIVE Exponent(_)
\* The binary exponent of a magnitude a >= 1: the e with 2^e <= a < 2^(e+1).
Exponent(a) == IF a < 2 THEN 0 ELSE 1 + Exponent(a \div 2)

\* The float nearest to the integer v (ties to even): below 2^MantissaBits
\* every integer is a float; from there on the floats are ulp apart, where
\* ulp = 2^(exponent - MantissaBits + 1).
FloatRound(v) ==
    LET a == IF v < 0 THEN -v ELSE v
        ulp == 2 ^ (Exponent(a) - MantissaBits + 1)
        q == a \div ulp
        r == a % ulp
        m == IF 2 * r < ulp THEN q
             ELSE IF 2 * r > ulp THEN q + 1
             ELSE IF q % 2 = 0 THEN q ELSE q + 1
    IN IF a < 2 ^ MantissaBits THEN v
       ELSE IF v < 0 THEN -(m * ulp) ELSE m * ulp

RECURSIVE WrapUp(_, _, _), WrapDown(_, _, _), SpinsUp(_, _, _), SpinsDown(_, _, _)
\* while (value < min_val) value += range;  never ends when value + range
\* rounds back to value.
SpinsUp(value, min_val, range) ==
    /\ value < min_val
    /\ LET next == FloatRound(value + range)
       IN next = value \/ SpinsUp(next, min_val, range)
\* The value that loop ends with, when it ends.
WrapUp(value, min_val, range) ==
    IF value < min_val THEN WrapUp(FloatRound(value + range), min_val, range)
    ELSE value
\* while (value >= max_val) value -= range;  never ends when value - range
\* rounds back to value.
SpinsDown(value, max_val, range) ==
    /\ value >= max_val
    /\ LET next == FloatRound(value - range)
       IN next = value \/ SpinsDown(next, max_val, range)
\* The value that loop ends with, when it ends.
WrapDown(value, max_val, range) ==
    IF value >= max_val THEN WrapDown(FloatRound(value - range), max_val, range)
    ELSE value

\* wrapCoordinate(value, min_val, max_val) does not return.
wrapCoordinate_spins(value, min_val, max_val) ==
    LET range == max_val - min_val
    IN /\ range > 0
       /\ \/ SpinsUp(value, min_val, range)
          \/ SpinsDown(WrapUp(value, min_val, range), max_val, range)

\* What wrapCoordinate(value, min_val, max_val) returns, when it returns.
wrapCoordinate(value, min_val, max_val) ==
    LET range == max_val - min_val
    IN IF range <= 0 THEN value
       ELSE WrapDown(WrapUp(value, min_val, range), max_val, range)

RECURSIVE PlayerInputFrom_Swapped(_, _)
\* Mutant of the loop of handlePlayerInput: x and y are exchanged.
PlayerInputFrom_Swapped(st, i) ==
    IF i >= Len(st.PlayerInput.entities.data) THEN st
    ELSE LET entity == st.PlayerInput.entities.data[i + 1]
             input == st.PlayerInput.data[i + 1]
             st1 == IF Component_contains(st.Velocity, entity)
                    THEN [st EXCEPT !.Velocity =
                             Component_assign(@, entity, Vec2(input.y, input.x))]
                    ELSE st
         IN CHOOSE result \in {PlayerInputFrom_Swapped(next, i + 1) : next \in {st1}} : TRUE

RECURSIVE PlayerInputFrom_StopsAtOrphan(_, _)
\* Mutant of the loop of handlePlayerInput: it ends at the first entity that
\* has no Velocity.
PlayerInputFrom_StopsAtOrphan(st, i) ==
    IF i >= Len(st.PlayerInput.entities.data) THEN st
    ELSE LET entity == st.PlayerInput.entities.data[i + 1]
             input == st.PlayerInput.data[i + 1]
         IN IF Component_contains(st.Velocity, entity)
            THEN PlayerInputFrom_StopsAtOrphan(
                    [st EXCEPT !.Velocity =
                        Component_assign(@, entity, Vec2(input.x, input.y))], i + 1)
            ELSE st

RECURSIVE PlayerInputFrom(_, _)
\* The loop of handlePlayerInput from dense index i (0-based) on.
PlayerInputFrom(st, i) ==
    IF i >= Len(st.PlayerInput.entities.data) THEN st
    ELSE LET entity == st.PlayerInput.entities.data[i + 1]
             input == st.PlayerInput.data[i + 1]
             st1 == IF Component_contains(st.Velocity, entity)
                    THEN [st EXCEPT !.Velocity =
                             Component_assign(@, entity, Vec2(input.x, input.y))]
                    ELSE st   \* only a line on std::cerr
         IN CHOOSE result \in {PlayerInputFrom(next, i + 1) : next \in {st1}} : TRUE

handlePlayerInput(st) == PlayerInputFrom(st, 0)

\* Mutant of the inner loop's body: the hit is counted but the Velocity is
\* left as it is.
CollidePair_KeepsVelocity(st, i, j) ==
    LET entity_a == st.Polygon.entities.data[i + 1]
        poly_a == st.Polygon.data[i + 1]
        entity_b == st.Polygon.entities.data[j + 1]
        poly_b == st.Polygon.data[j + 1]
    IN IF entity_a >= entity_b THEN st
       ELSE IF ~Polygon_may_intersect(poly_a, poly_b) THEN st
       ELSE IF ~Polygon_intersects(poly_a, poly_b) THEN st
       ELSE IF ~Component_contains(st.HitCounter, entity_a) THEN st
       ELSE [st EXCEPT !.HitCounter =
                          Component_assign(@, entity_a,
                             [hits |-> HitCounter_increment(Component_at(@, entity_a).hits)])]

\* Mutant of the inner loop's body: the pair is skipped by its place in the
\* dense array, not by its entity ids.
CollidePair_ByDenseIndex(st, i, j) ==
    LET entity_a == st.Polygon.entities.data[i + 1]
        poly_a == st.Polygon.data[i + 1]
        poly_b == st.Polygon.data[j + 1]
    IN IF i >= j THEN st
       ELSE IF ~Polygon_may_intersect(poly_a, poly_b) THEN st
       ELSE IF ~Polygon_intersects(poly_a, poly_b) THEN st
       ELSE IF ~Component_contains(st.HitCounter, entity_a) THEN st
       ELSE LET hit == [st EXCEPT !.HitCounter =
                           Component_assign(@, entity_a,
                              [hits |-> HitCounter_increment(Component_at(@, entity_a).hits)])]
            IN IF Component_contains(st.Velocity, entity_a)
               THEN [hit EXCEPT !.Velocity = Component_assign(@, entity_a, Vec2(0, 0))]
               ELSE hit

\* Mutant of the inner loop's body: both phases are skipped, every pair
\* a < b counts as a collision.
CollidePair_NoPhases(st, i, j) ==
    LET entity_a == st.Polygon.entities.data[i + 1]
        entity_b == st.Polygon.entities.data[j + 1]
    IN IF entity_a >= entity_b THEN st
       ELSE IF ~Component_contains(st.HitCounter, entity_a) THEN st
       ELSE LET hit == [st EXCEPT !.HitCounter =
                           Component_assign(@, entity_a,
                              [hits |-> HitCounter_increment(Component_at(@, entity_a).hits)])]
            IN IF Component_contains(st.Velocity, entity_a)
               THEN [hit EXCEPT !.Velocity = Component_assign(@, entity_a, Vec2(0, 0))]
               ELSE hit

\* Mutant of the inner loop's body: the entity hit loses its Velocity
\* instead of having it set to (0, 0).
CollidePair_ErasesVelocity(st, i, j) ==
    LET entity_a == st.Polygon.entities.data[i + 1]
        poly_a == st.Polygon.data[i + 1]
        entity_b == st.Polygon.entities.data[j + 1]
        poly_b == st.Polygon.data[j + 1]
    IN IF entity_a >= entity_b THEN st
       ELSE IF ~Polygon_may_intersect(poly_a, poly_b) THEN st
       ELSE IF ~Polygon_intersects(poly_a, poly_b) THEN st
       ELSE IF ~Component_contains(st.HitCounter, entity_a) THEN st
       ELSE [st EXCEPT !.HitCounter =
                          Component_assign(@, entity_a,
                             [hits |-> HitCounter_increment(Component_at(@, entity_a).hits)]),
                       !.Velocity = Component_erase(@, entity_a)]

\* Mutant of the inner loop's body: entity_b is credited with the hit too.
CollidePair_CreditsBoth(st, i, j) ==
    LET entity_a == st.Polygon.entities.data[i + 1]
        poly_a == st.Polygon.data[i + 1]
        entity_b == st.Polygon.entities.data[j + 1]
        poly_b == st.Polygon.data[j + 1]
        Credit(s0, e) ==
            IF ~Component_contains(s0.HitCounter, e) THEN s0
            ELSE LET hit == [s0 EXCEPT !.HitCounter =
                                Component_assign(@, e,
                                   [hits |-> HitCounter_increment(Component_at(@, e).hits)])]
                 IN IF Component_contains(s0.Velocity, e)
                    THEN [hit EXCEPT !.Velocity = Component_assign(@, e, Vec2(0, 0))]
                    ELSE hit
    IN IF entity_a >= entity_b THEN st
       ELSE IF ~Polygon_may_intersect(poly_a, poly_b) THEN st
       ELSE IF ~Polygon_intersects(poly_a, poly_b) THEN st
       ELSE Credit(Credit(st, entity_a), entity_b)

\* The body of the inner loop of handleCollisions for dense indices i, j.
CollidePair(st, i, j) ==
    LET entity_a == st.Polygon.entities.data[i + 1]
        poly_a == st.Polygon.data[i + 1]
        entity_b == st.Polygon.entities.data[j + 1]
        poly_b == st.Polygon.data[j + 1]
    IN IF entity_a >= entity_b THEN st
       ELSE IF ~Polygon_may_intersect(poly_a, poly_b) THEN st
       ELSE IF ~Polygon_intersects(poly_a, poly_b) THEN st
       ELSE IF ~Component_contains(st.HitCounter, entity_a) THEN st
       ELSE LET hit == [st EXCEPT !.HitCounter =
                           Component_assign(@, entity_a,
                              [hits |-> HitCounter_increment(Component_at(@, entity_a).hits)])]
            IN IF Component_contains(st.Velocity, entity_a)
               THEN [hit EXCEPT !.Velocity = Component_assign(@, entity_a, Vec2(0, 0))]
               ELSE hit

RECURSIVE CollideFrom(_, _, _)
\* The two nested loops of handleCollisions from indices (i, j) on.  (The
\* store each iteration leaves is bound as a value before the next one.)
CollideFrom(st, i, j) ==
    LET n == Len(st.Polygon.entities.data)
    IN IF i >= n THEN st
       ELSE IF j >= n THEN CollideFrom(st, i + 1, 0)
       ELSE CHOOSE result \in {CollideFrom(next, i, j + 1) :
                                  next \in {CollidePair(st, i, j)}} : TRUE

handleCollisions(st) == CollideFrom(st, 0, 0)

RECURSIVE TestedFrom(_, _, _)
\* The pairs <<entity_a, entity_b>> that the nested loops of handleCollisions
\* let past the `continue` from indices (i, j) on, in the order met.  (The
\* pass does not change the Polygon store it iterates.)
TestedFrom(st, i, j) ==
    LET n == Len(st.Polygon.entities.data)
    IN IF i >= n THEN <<>>
       ELSE IF j >= n THEN TestedFrom(st, i + 1, 0)
       ELSE LET entity_a == st.Polygon.entities.data[i + 1]
                entity_b == st.Polygon.entities.data[j + 1]
            IN (IF entity_a >= entity_b THEN <<>> ELSE << <<entity_a, entity_b>> >>)
                  \o TestedFrom(st, i, j + 1)

\* The pairs one pass of handleCollisions tests.
handleCollisions_pairs(st) == TestedFrom(st, 0, 0)

\* position.x += velocity.x; position.y += velocity.y: float additions.
Moved(position, velocity) ==
    Vec2(FloatRound(position.x + velocity.x), FloatRound(position.y + velocity.y))

\* The body of the loop of updatePositions for dense index i does not end:
\* one of its two wrapCoordinate calls does not return.
PositionSpins(st, i) ==
    LET entity == st.Velocity.entities.data[i + 1]
        moved == Moved(Component_at(st.Position, entity), st.Velocity.data[i + 1])
    IN /\ Component_contains(st.Position, entity)
       /\ \/ wrapCoordinate_spins(moved.x, WORLD_MIN_X, WORLD_MAX_X)
          \/ wrapCoordinate_spins(moved.y, WORLD_MIN_Y, WORLD_MAX_Y)

RECURSIVE PositionsFrom_CreatesPosition(_, _)
\* Mutant of the loop of updatePositions: an entity without Position gets
\* one, at its velocity.
PositionsFrom_CreatesPosition(st, i) ==
    IF i >= Len(st.Velocity.entities.data) THEN st
    ELSE LET entity == st.Velocity.entities.data[i + 1]
             velocity == st.Velocity.data[i + 1]
         IN IF Component_contains(st.Position, entity)
            THEN IF PositionSpins(st, i) THEN st
                 ELSE LET moved == Moved(Component_at(st.Position, entity), velocity)
                      IN PositionsFrom_CreatesPosition(
                            [st EXCEPT !.Position = Component_assign(@, entity,
                               Vec2(wrapCoordinate(moved.x, WORLD_MIN_X, WORLD_MAX_X),
                                    wrapCoordinate(moved.y, WORLD_MIN_Y, WORLD_MAX_Y)))],
                            i + 1)
            ELSE PositionsFrom_CreatesPosition(
                    [st EXCEPT !.Position = Component_insert(@, entity, velocity)], i + 1)

RECURSIVE PositionsFrom(_, _)
\* The loop of updatePositions from dense index i on: the store it has made
\* when it ends, or when it reaches an entity whose wrapping never ends.
PositionsFrom(st, i) ==
    IF i >= Len(st.Velocity.entities.data) THEN st
    ELSE IF PositionSpins(st, i) THEN st
    ELSE LET entity == st.Velocity.entities.data[i + 1]
             velocity == st.Velocity.data[i + 1]
             st1 == IF Component_contains(st.Position, entity)
                    THEN LET moved == Moved(Component_at(st.Position, entity), velocity)
                         IN [st EXCEPT !.Position = Component_assign(@, entity,
                               Vec2(wrapCoordinate(moved.x, WORLD_MIN_X, WORLD_MAX_X),
                                    wrapCoordinate(moved.y, WORLD_MIN_Y, WORLD_MAX_Y)))]
                    ELSE st
         IN CHOOSE result \in {PositionsFrom(next, i + 1) : next \in {st1}} : TRUE

updatePositions(st) == PositionsFrom(st, 0)

\* updatePositions(st) does not return.  (Each entity occurs once in the
\* Velocity store's id array, so its Position is still the one of st when
\* its turn comes.)
updatePositions_spins(st) ==
    \E i \in 0 .. (Len(st.Velocity.entities.data) - 1) : PositionSpins(st, i)

(***************************************************************************)
(* Scenes: the store is filled through Component::insert before the two    *)
(* threads start.  runMainloop itself starts from the empty store.         *)
(***************************************************************************)

With(st, type, entity, value) ==
    [st EXCEPT ![type] = Component_insert(@, entity, value)]

Square(x0, y0, x1, y1) ==
    Polygon(<<Vec2(x0, y0), Vec2(x1, y0), Vec2(x1, y1), Vec2(x0, y1)>>)

\* Entity 0 is the robot (Position, Velocity, HitCounter, Polygon) next to the
\* right edge of the world; 1 is a static obstacle; 2 moves.  No polygons
\* overlap.
SceneApart ==
    LET s1 == With(EntityStore_new, "Position", 0, Vec2(119, 0))
        s2 == With(s1, "Velocity", 0, Vec2(0, 0))
        s3 == With(s2, "HitCounter", 0, [hits |-> 0])
        s4 == With(s3, "Polygon", 0, Square(0, 0, 2, 2))
        s5 == With(s4, "Polygon", 1, Square(5, 5, 6, 6))
        s6 == With(s5, "Position", 1, Vec2(10, 10))
        s7 == With(s6, "Polygon", 2, Square(8, 8, 9, 9))
        s8 == With(s7, "Position", 2, Vec2(-118, 117))
    IN With(s8, "Velocity", 2, Vec2(-5, 4))

\* The robot's polygon overlaps entity 1's; the Polygon store was filled in
\* the order 1, 0, 2; entity 2 has a Velocity but no Position.
SceneOverlap ==
    LET s1 == With(EntityStore_new, "Polygon", 1, Square(1, 1, 3, 3))
        s2 == With(s1, "Polygon", 0, Square(0, 0, 2, 2))
        s3 == With(s2, "Polygon", 2, Square(5, 5, 6, 6))
        s4 == With(s3, "Position", 0, Vec2(0, 0))
        s5 == With(s4, "Velocity", 0, Vec2(0, 0))
        s6 == With(s5, "HitCounter", 0, [hits |-> 0])
        s7 == With(s6, "Position", 1, Vec2(50, 50))
    IN With(s7, "Velocity", 2, Vec2(1, 1))

Scenes == {EntityStore_new, SceneApart, SceneOverlap}

\* A request is [kind, json, xf, yf, x, y]: the handler it is dispatched to
\* and, for POST /input, what its body is when parsed (an object, another
\* JSON value, or no JSON at all), what the object holds under "x" and "y"
\* (a number, a value that is no number, or nothing), and the floats that
\* value_to<float> makes of the numbers.
Request(kind, json, xf, yf, x, y) ==
    [kind |-> kind, json |-> json, xf |-> xf, yf |-> yf, x |-> x, y |-> y]

\* Mutant of ParseInput: "y" is read without being checked.
ParseInput_TrustsY(r) ==
    IF r.json = "garbage" THEN "parse_error"
    ELSE IF r.json # "object" THEN "not_an_object"
    ELSE IF r.xf = "missing" THEN "no_key"
    ELSE IF r.xf # "number" THEN "not_a_number"
    ELSE "ok"

\* The statements of handle_input before the store is touched, in order:
\* boost::json::parse(body), jv.as_object(), obj.at("x"), value_to<float>,
\* obj.at("y"), value_to<float>.  Each throws on what it cannot take; "ok"
\* when none does.
ParseInput(r) ==
    IF r.json = "garbage" THEN "parse_error"
    ELSE IF r.json # "object" THEN "not_an_object"
    ELSE IF r.xf = "missing" THEN "no_key"
    ELSE IF r.xf # "number" THEN "not_a_number"
    ELSE IF r.yf = "missing" THEN "no_key"
    ELSE IF r.yf # "number" THEN "not_a_number"
    ELSE "ok"

\* The requests: POST /input with a body {x, y} of two numbers, POST /input
\* with a body that is no JSON, no object, or an object whose x or y is
\* missing or no number, and GET /output.
Requests ==
    {Request("input", "object", "number", "number", 1, 0),
     Request("input", "object", "number", "number", 0, -1),
     Request("input", "garbage", "missing", "missing", 0, 0),
     Request("input", "array", "missing", "missing", 0, 0),
     Request("input", "object", "missing", "number", 0, 7),
     Request("input", "object", "string", "number", 0, 7),
     Request("input", "object", "number", "missing", 7, 0),
     Request("input", "object", "number", "string", 7, 0),
     Request("output", "none", "missing", "missing", 0, 0)}

NoRequest == Request("none", "none", "missing", "missing", 0, 0)

\* The entities of the generated stores: the first two ids and the last.
SceneIds == {0, 1, EntityCount - 1}

\* The orders in which distinct ids can have been inserted into a store.
Orders ==
    UNION {{q \in [1 .. n -> SceneIds] :
               \A i, j \in 1 .. n : i # j => q[i] # q[j]} :
              n \in 0 .. Cardinality(SceneIds)}

RECURSIVE FilledFrom(_, _, _)
\* The store after insert(order[1], val[order[1]]), ..., insert(order[k], ...).
FilledFrom(order, val, k) ==
    IF k = 0 THEN Component_new
    ELSE Component_insert(FilledFrom(order, val, k - 1), order[k], val[order[k]])

\* Every store that inserts of distinct ids, with values from valueSet, give.
Stores(valueSet) ==
    {FilledFrom(order, val, Len(order)) :
        order \in Orders, val \in [SceneIds -> valueSet]}

\* The bodies POST /input accepts in the model, as PlayerInput values.
InputVecs ==
    {Vec2(r.x, r.y) : r \in {q \in Requests : q.kind = "input" /\ ParseInput(q) = "ok"}}

\* Stores for the input system: any set of entities has a PlayerInput, any
\* set a Velocity, inserted in any order; the rest is SceneApart's.
InputStores ==
    {[SceneApart EXCEPT !.PlayerInput = inputs, !.Velocity = velocities] :
        inputs \in Stores(InputVecs), velocities \in Stores({Vec2(-5, 4)})}

(***************************************************************************)
(* The main-loop thread of runMainloop (mainloop.hpp).                     *)
(***************************************************************************)

\* while (!stop_token.stop_requested()): tested between ticks, lock not held.
SimCheck ==
    /\ SysFrame
    /\ simpc = "check"
    /\ stop \/ ticks < MaxTicks
    /\ simpc' = IF stop THEN "done" ELSE "lock"
    /\ UNCHANGED <<store, store_mutex, stop, netpc, req, scene, resp, ticks,
                   nreq, tickBase>>

\* Mutant of SimLock: the main loop does not wait for the mutex.
SimLock_NoWait ==
    /\ SysFrame
    /\ simpc = "lock"
    /\ simpc' = "input"
    /\ UNCHANGED <<store, store_mutex, stop, netpc, req, scene, resp, ticks,
                   nreq, tickBase>>

\* std::lock_guard<std::mutex> lock(store_mutex): blocks until it is free.
SimLock ==
    /\ SysFrame
    /\ simpc = "lock"
    /\ store_mutex = "free"
    /\ store_mutex' = "sim"
    /\ simpc' = "input"
    /\ UNCHANGED <<store, stop, netpc, req, scene, resp, ticks, nreq, tickBase>>

\* Mutant of SimInput: the tick starts with the collision system.
SimInput_CollisionsFirst ==
    /\ SysFrame
    /\ simpc = "input"
    /\ store' = handleCollisions(store)
    /\ simpc' = "collide"
    /\ UNCHANGED <<store_mutex, stop, netpc, req, scene, resp, ticks, nreq,
                   tickBase>>

\* Mutant of SimInput: a tick that finds stop requested is abandoned.
SimInput_StopsMidTick ==
    /\ SysFrame
    /\ simpc = "input"
    /\ store' = IF stop THEN store ELSE handlePlayerInput(store)
    /\ simpc' = IF stop THEN "unlock" ELSE "collide"
    /\ UNCHANGED <<store_mutex, stop, netpc, req, scene, resp, ticks, nreq,
                   tickBase>>

SimInput ==
    /\ SysFrame
    /\ simpc = "input"
    /\ store' = handlePlayerInput(store)
    /\ simpc' = "collide"
    /\ UNCHANGED <<store_mutex, stop, netpc, req, scene, resp, ticks, nreq,
                   tickBase>>

SimCollide ==
    /\ SysFrame
    /\ simpc = "collide"
    /\ store' = handleCollisions(store)
    /\ simpc' = "move"
    /\ UNCHANGED <<store_mutex, stop, netpc, req, scene, resp, ticks, nreq,
                   tickBase>>

\* updatePositions ends the tick: its result is the new tick-boundary state.
\* When it does not return the thread stays in it, the lock held.
SimMove ==
    /\ SysFrame
    /\ simpc = "move"
    /\ ticks < MaxTicks
    /\ store' = updatePositions(store)
    /\ IF updatePositions_spins(store)
       THEN /\ simpc' = "spin"
            /\ UNCHANGED <<tickBase, ticks>>
       ELSE /\ tickBase' = store'
            /\ ticks' = ticks + 1
            /\ simpc' = "unlock"
    /\ UNCHANGED <<store_mutex, stop, netpc, req, scene, resp, nreq>>

\* The loop has no end of its own and no pause: once MaxTicks ticks are
\* counted it goes on ticking, the later ticks uncounted.  The loop's head
\* after the last counted tick ...
SimCheckUncounted ==
    /\ SysFrame
    /\ simpc = "check"
    /\ ~stop
    /\ ticks >= MaxTicks
    /\ simpc' = "lock"
    /\ UNCHANGED <<store, store_mutex, stop, netpc, req, scene, resp, ticks,
                   nreq, tickBase>>

\* ... and updatePositions at the end of an uncounted tick.
SimMoveUncounted ==
    /\ SysFrame
    /\ simpc = "move"
    /\ ticks >= MaxTicks
    /\ store' = updatePositions(store)
    /\ IF updatePositions_spins(store)
       THEN /\ simpc' = "spin"
            /\ UNCHANGED tickBase
       ELSE /\ tickBase' = store'
            /\ simpc' = "unlock"
    /\ UNCHANGED <<store_mutex, stop, netpc, req, scene, resp, ticks, nreq>>

\* The lock_guard's destructor at the end of the loop body.
SimUnlock ==
    /\ SysFrame
    /\ simpc = "unlock"
    /\ store_mutex' = "free"
    /\ simpc' = "check"
    /\ UNCHANGED <<store, stop, netpc, req, scene, resp, ticks, nreq, tickBase>>

\* signal_handler(SIGINT): stop_source.request_stop().
RequestStop ==
    /\ SysFrame
    /\ ~stop
    /\ stop' = TRUE
    /\ UNCHANGED <<store, store_mutex, simpc, netpc, req, scene, resp, ticks,
                   nreq, tickBase>>

(***************************************************************************)
(* The REST thread (rest.hpp): Session::handle_input and handle_output.    *)
(***************************************************************************)

\* do_read's completion handler calls handle_request, which dispatches.
NetRecv(r) ==
    /\ SysFrame
    /\ netpc = "idle"
    /\ ~stop
    /\ nreq < MaxRequests
    /\ req' = r
    /\ nreq' = nreq + 1
    /\ scene' = <<>>
    /\ netpc' = "lock"
    /\ UNCHANGED <<store, store_mutex, stop, simpc, resp, ticks, tickBase>>

\* Mutant of NetLock: the handler does not wait for the mutex.
NetLock_NoWait ==
    /\ SysFrame
    /\ netpc = "lock"
    /\ netpc' = "body"
    /\ UNCHANGED <<store, store_mutex, stop, simpc, req, scene, resp, ticks,
                   nreq, tickBase>>

\* std::lock_guard<std::mutex> lock(store_mutex_), first statement of both
\* handlers' try blocks.
NetLock ==
    /\ SysFrame
    /\ netpc = "lock"
    /\ store_mutex = "free"
    /\ store_mutex' = "net"
    /\ netpc' = "body"
    /\ UNCHANGED <<store, stop, simpc, req, scene, resp, ticks, nreq, tickBase>>

\* Mutant of ApplyInput: the input is inserted whether present or not.
ApplyInput_AlwaysInserts(st, x, y) ==
    [st EXCEPT !.PlayerInput = Component_insert(@, 0, Vec2(x, y))]

\* inputs[0] = PlayerInput(x, y) when present, else inputs.insert(0, ...).
ApplyInput(st, x, y) ==
    IF Component_contains(st.PlayerInput, 0)
    THEN [st EXCEPT !.PlayerInput = Component_assign(@, 0, Vec2(x, y))]
    ELSE [st EXCEPT !.PlayerInput = Component_insert(@, 0, Vec2(x, y))]

\* Mutant of NetInputBody: the lock is taken and released by hand, and the
\* path through the catch clause does not release it.
NetInputBody_KeepsLockOnError ==
    /\ SysFrame
    /\ netpc = "body"
    /\ req.kind = "input"
    /\ IF ParseInput(req) = "ok"
       THEN /\ store' = ApplyInput(store, req.x, req.y)
            /\ tickBase' = store'
            /\ resp' = 200
            /\ netpc' = "unlock"
       ELSE /\ resp' = 400
            /\ netpc' = "idle"
            /\ UNCHANGED <<store, tickBase>>
    /\ UNCHANGED <<store_mutex, stop, simpc, req, scene, ticks, nreq>>

\* The rest of handle_input's try block.  A statement that throws does so
\* before the store is touched: the unwinding releases the lock and the
\* catch clause answers 400.  Otherwise the input is written and 200 is
\* answered with the lock still held.
NetInputBody ==
    /\ SysFrame
    /\ netpc = "body"
    /\ req.kind = "input"
    /\ IF ParseInput(req) = "ok"
       THEN /\ store' = ApplyInput(store, req.x, req.y)
            /\ tickBase' = store'
            /\ resp' = 200
            /\ netpc' = "unlock"
            /\ UNCHANGED store_mutex
       ELSE /\ store_mutex' = "free"
            /\ resp' = 400
            /\ netpc' = "idle"
            /\ UNCHANGED <<store, tickBase>>
    /\ UNCHANGED <<stop, simpc, req, scene, ticks, nreq>>

\* Mutant of Geometry: the vertices are sent in world coordinates.
Geometry_WorldVertices(st, i) ==
    LET entity_id == st.Polygon.entities.data[i + 1]
        polygon == st.Polygon.data[i + 1]
        has == Component_contains(st.Position, entity_id)
        dx == IF has THEN Component_at(st.Position, entity_id).x ELSE 0
        dy == IF has THEN Component_at(st.Position, entity_id).y ELSE 0
    IN [vertices |-> [k \in 1 .. Polygon_size(polygon) |->
                         <<polygon.vertices_x[k] + dx, polygon.vertices_y[k] + dy>>],
        position |-> IF has THEN <<dx, dy>> ELSE <<>>]

\* The geometry handle_output builds for the Polygon store's dense index i.
Geometry(st, i) ==
    LET entity_id == st.Polygon.entities.data[i + 1]
        polygon == st.Polygon.data[i + 1]
    IN [vertices |-> [k \in 1 .. Polygon_size(polygon) |->
                         <<polygon.vertices_x[k], polygon.vertices_y[k]>>],
        position |-> IF Component_contains(st.Position, entity_id)
                     THEN LET pos == Component_at(st.Position, entity_id)
                          IN <<pos.x, pos.y>>
                     ELSE <<>>]

\* One iteration of handle_output's loop over the Polygon store.
NetOutputStep ==
    /\ SysFrame
    /\ netpc = "body"
    /\ req.kind = "output"
    /\ Len(scene) < Len(store.Polygon.entities.data)
    /\ scene' = Append(scene, Geometry(store, Len(scene)))
    /\ UNCHANGED <<store, store_mutex, stop, simpc, netpc, req, resp, ticks,
                   nreq, tickBase>>

\* Mutant of NetOutputDone: the handler, lock held, waits for the main loop
\* to finish a tick before it answers.
NetOutputDone_WaitsForTick ==
    /\ SysFrame
    /\ netpc = "body"
    /\ req.kind = "output"
    /\ Len(scene) >= Len(store.Polygon.entities.data)
    /\ simpc = "unlock"
    /\ resp' = 200
    /\ netpc' = "unlock"
    /\ UNCHANGED <<store, store_mutex, stop, simpc, req, scene, ticks, nreq,
                   tickBase>>

\* The loop is over: the scene is serialized and answered, lock still held.
NetOutputDone ==
    /\ SysFrame
    /\ netpc = "body"
    /\ req.kind = "output"
    /\ Len(scene) >= Len(store.Polygon.entities.data)
    /\ resp' = 200
    /\ netpc' = "unlock"
    /\ UNCHANGED <<store, store_mutex, stop, simpc, req, scene, ticks, nreq,
                   tickBase>>

\* The end of the try block: the lock_guard's destructor.
NetUnlock ==
    /\ SysFrame
    /\ netpc = "unlock"
    /\ store_mutex' = "free"
    /\ netpc' = "idle"
    /\ UNCHANGED <<store, stop, simpc, req, scene, resp, ticks, nreq, tickBase>>

\* The stop callback stops the io_context: ioc.run() returns once no handler
\* is running.
NetStop ==
    /\ SysFrame
    /\ netpc = "idle"
    /\ stop
    /\ netpc' = "done"
    /\ UNCHANGED <<store, store_mutex, stop, simpc, req, scene, resp, ticks,
                   nreq, tickBase>>

InitSys(scenes) ==
    /\ store \in scenes
    /\ tickBase = store
    /\ store_mutex = "free"
    /\ stop = FALSE
    /\ simpc = "check"
    /\ netpc = "idle"
    /\ req = NoRequest
    /\ scene = <<>>
    /\ resp = 0
    /\ ticks = 0
    /\ nreq = 0

NextSys ==
    \/ SimCheck
    \/ SimLock
    \/ SimInput
    \/ SimCollide
    \/ SimMove
    \/ SimUnlock
    \/ RequestStop
    \/ \E r \in Requests : NetRecv(r)
    \/ NetLock
    \/ NetInputBody
    \/ NetOutputStep
    \/ NetOutputDone
    \/ NetUnlock
    \/ NetStop

(***************************************************************************)
(* The narrow-phase harness: intersects is called on any two polygons of   *)
(* a set with three to six vertices each.                                   *)
(***************************************************************************)

\* Polygons for the narrow phase: squares, triangles, pentagons and a
\* hexagon, some overlapping and some apart.
NarrowShapes ==
    {Square(0, 0, 4, 4), Square(2, 2, 6, 6), Square(20, 20, 22, 22),
     Polygon(<<Vec2(3, 6), Vec2(6, 3), Vec2(9, 6), Vec2(6, 9)>>),
     Polygon(<<Vec2(0, 0), Vec2(4, 0), Vec2(0, 4)>>),
     Polygon(<<Vec2(1, 1), Vec2(5, 1), Vec2(1, 5)>>),
     Polygon(<<Vec2(10, 10), Vec2(12, 10), Vec2(10, 12)>>),
     Polygon(<<Vec2(0, 0), Vec2(4, 0), Vec2(5, 3), Vec2(2, 5), Vec2(-1, 3)>>),
     Polygon(<<Vec2(10, 0), Vec2(14, 0), Vec2(15, 3), Vec2(12, 5), Vec2(9, 3)>>),
     Polygon(<<Vec2(1, 0), Vec2(3, 0), Vec2(4, 2), Vec2(3, 4), Vec2(1, 4),
               Vec2(0, 2)>>)}

\* No narrow-phase call and no scene generation made yet.
InitHarness ==
    /\ pcall = [this |-> <<>>, other |-> <<>>, result |-> "none", index |-> -1]
    /\ built = 0

\* poly_a.intersects(poly_b)
PolyIntersects(this, other) ==
    /\ UNCHANGED <<svars, cvars, yvars, rvars, built>>
    /\ LET call == Polygon_intersects_call(this, other)
       IN \E result \in call.results :
             pcall' = [this |-> this, other |-> other, result |-> result,
                       index |-> call.index]

NextPoly == \E this, other \in NarrowShapes : PolyIntersects(this, other)

(***************************************************************************)
(* The registry (components.hpp): Components<ComponentTypes...> holds a    *)
(* std::tuple<Component<ComponentTypes>...> and get<T>() is                *)
(* std::get<Component<T>>(storages), a lookup by TYPE.                     *)
(***************************************************************************)

\* The template arguments of EntityStore, in order.
ComponentTypes == <<"Position", "Velocity", "PlayerInput", "HitCounter", "Polygon">>

Kinds == {ComponentTypes[k] : k \in 1 .. Len(ComponentTypes)}

\* The type each name denotes: Velocity, Position and PlayerInput are
\* alias-declarations of Vec2 (using X = Vec2), HitCounter and Polygon are
\* structs of their own.
TypeOf(kind) ==
    IF kind \in {"Velocity", "Position", "PlayerInput"} THEN "Vec2" ELSE kind

\* get<T>(): std::get<Component<T>>(storages) is well-formed only when
\* Component<T> occurs exactly once among the tuple's element types; then it
\* denotes that element.  Otherwise the call does not compile.
Components_get(kind) ==
    LET matches == {k \in 1 .. Len(ComponentTypes) :
                       TypeOf(ComponentTypes[k]) = TypeOf(kind)}
    IN IF Cardinality(matches) = 1
       THEN [outcome |-> "ok", element |-> ComponentTypes[CHOOSE k \in matches : TRUE]]
       ELSE [outcome |-> "ill_formed", element |-> "none"]

RCall(kind, op, arg, val, outcome) ==
    [kind |-> kind, op |-> op, arg |-> arg, val |-> val, outcome |-> outcome]

InitReg ==
    /\ reg = EntityStore_new
    /\ rcall = RCall("none", "new", NONE, NONE, "ok")
    /\ rbefore = EntityStore_new
    /\ rcount = 0

\* The Component a call written as store.get<kind>().op(...) is applied to
\* (none when the lookup is ill-formed).
RegTarget(kind) ==
    LET got == Components_get(kind)
    IN IF got.outcome = "ok" THEN reg[got.element] ELSE Component_new

\* A call written as store.get<kind>().op(...): changed is what op makes of
\* the Component it is applied to.
RegApply(kind, op, arg, val, changed) ==
    /\ rcount < MaxRegCalls
    /\ rcount' = rcount + 1
    /\ rbefore' = reg
    /\ LET got == Components_get(kind)
       IN /\ rcall' = RCall(kind, op, arg, val, got.outcome)
          /\ reg' = IF got.outcome = "ok"
                    THEN [reg EXCEPT ![got.element] = changed]
                    ELSE reg

RegInsert(kind, entity, value) ==
    /\ RegFrame
    /\ RegApply(kind, "insert", entity, value,
                Component_insert(RegTarget(kind), entity, value))

\* get<kind>()[entity] = value, for a present entity.
RegAssign(kind, entity, value) ==
    /\ RegFrame
    /\ Components_get(kind).outcome = "ok" =>
          Component_contains(RegTarget(kind), entity)
    /\ RegApply(kind, "assign", entity, value,
                IF Component_contains(RegTarget(kind), entity)
                THEN Component_assign(RegTarget(kind), entity, value)
                ELSE RegTarget(kind))

RegErase(kind, entity) ==
    /\ RegFrame
    /\ RegApply(kind, "erase", entity, NONE,
                Component_erase(RegTarget(kind), entity))

RegClear(kind) ==
    /\ RegFrame
    /\ RegApply(kind, "clear", NONE, NONE, Component_clear(RegTarget(kind)))

NextReg ==
    \/ \E kind \in Kinds, entity \in InRange, value \in Values :
          RegInsert(kind, entity, value)
    \/ \E kind \in Kinds, entity \in InRange, value \in Values :
          RegAssign(kind, entity, value)
    \/ \E kind \in Kinds, entity \in InRange : RegErase(kind, entity)
    \/ \E kind \in Kinds : RegClear(kind)

\* A square standing on a corner: centre (cx, cy), half-diagonal r.
Diamond(cx, cy, r) ==
    Polygon(<<Vec2(cx - r, cy), Vec2(cx, cy - r), Vec2(cx + r, cy), Vec2(cx, cy + r)>>)

\* Local polygons: two overlapping squares, and a diamond that overlaps the
\* second square and lies beyond a corner of the first.  (SceneApart's
\* polygons are the ones whose bounding boxes are disjoint.)
PolyShapes == {Square(0, 0, 4, 4), Square(2, 2, 6, 6), Diamond(6, 6, 3)}

\* The stores in which some set of entities, inserted in ascending order,
\* has the value.
Present(value) ==
    {FilledFrom(order, [id \in SceneIds |-> value], Len(order)) :
        order \in {q \in Orders : \A k \in 1 .. (Len(q) - 1) : q[k] < q[k + 1]}}

\* The Polygon stores in which some set of entities, inserted in ascending
\* or in descending order, has a polygon of one of the shapes each.
PolygonStores ==
    {FilledFrom(order, val, Len(order)) :
        order \in {q \in Orders : (\A k \in 1 .. (Len(q) - 1) : q[k] < q[k + 1])
                                   \/ (\A k \in 1 .. (Len(q) - 1) : q[k] > q[k + 1])},
        val \in [SceneIds -> PolyShapes]}

\* Every entity has a Position, far from every other entity's.
PositionsApart ==
    FilledFrom([k \in 1 .. EntityCount |-> k - 1],
               [id \in InRange |-> Vec2(50 * id - 100, 0)], EntityCount)

\* Stores for the collision system: any set of entities has a polygon, any
\* set a HitCounter at 0, any set a Velocity.
CollisionStores ==
    {[Position |-> PositionsApart, Velocity |-> velocities,
      PlayerInput |-> Component_new, HitCounter |-> counters,
      Polygon |-> polygons] :
        velocities \in Present(Vec2(1, 1)),
        counters \in Present([hits |-> 0]),
        polygons \in PolygonStores}

\* Stores whose polygons are no polygons: entities 0 and 1 have two vertices
\* each, a diagonal of the square [0,4]x[0,4] or the other one; any set of
\* entities has a HitCounter at 0, any set a Velocity.  (A polygon without
\* vertices is left out: get_aabb dereferences an end iterator on it.)
DegenerateStores ==
    LET Diagonals == {Polygon(<<Vec2(0, 0), Vec2(4, 4)>>),
                      Polygon(<<Vec2(0, 4), Vec2(4, 0)>>)}
    IN {[Position |-> PositionsApart, Velocity |-> velocities,
         PlayerInput |-> Component_new, HitCounter |-> counters,
         Polygon |-> FilledFrom(<<0, 1>>, val, 2)] :
           velocities \in Present(Vec2(1, 1)),
           counters \in Present([hits |-> 0]),
           val \in [{0, 1} -> Diagonals]}

\* The main loop on its own, started on any of the stores above.
TickStores == InputStores \cup CollisionStores \cup DegenerateStores

InitTick == InitSet /\ InitStore /\ InitSys(TickStores) /\ InitReg /\ InitHarness

InitInputTick == InitSet /\ InitStore /\ InitSys(InputStores) /\ InitReg /\ InitHarness

NextTick ==
    \/ SimCheck
    \/ SimLock
    \/ SimInput
    \/ SimCollide
    \/ SimMove
    \/ SimUnlock

\* A float so large that adding or subtracting the world's width (240) does
\* not change it: its ulp is 1024.
BigFloat == 2 ^ (MantissaBits + 9)

\* Velocities and Positions for the movement system: sums just past a world
\* bound, sums more than one world width past it in either direction, a
\* velocity beyond every float that the wrapping can move, and a Position
\* inserted outside the world.
MoveVelocities == {Vec2(5, -1), Vec2(490, -250), Vec2(BigFloat, 0)}
MovePositions == {Vec2(119, -120), Vec2(300, -500)}

\* Stores for the movement system: any set of entities has a Position, any
\* set a Velocity, each inserted in ascending or in descending order; the
\* rest is SceneApart's (no PlayerInput, no overlapping polygons).
MoveStores ==
    LET Monotone == {q \in Orders : (\A k \in 1 .. (Len(q) - 1) : q[k] < q[k + 1])
                                     \/ (\A k \in 1 .. (Len(q) - 1) : q[k] > q[k + 1])}
        Filled(valueSet) == {FilledFrom(order, val, Len(order)) :
                                order \in Monotone, val \in [SceneIds -> valueSet]}
    IN {[SceneApart EXCEPT !.Position = positions, !.Velocity = velocities] :
           positions \in Filled(MovePositions), velocities \in Filled(MoveVelocities)}

InitMove == InitSet /\ InitStore /\ InitSys(MoveStores) /\ InitReg /\ InitHarness

\* The main loop on its own, started on any of the stores for the movement
\* system.
SpecMove == InitMove /\ [][NextTick]_vars

(***************************************************************************)
(* Scene generation (assets.hpp), called on a store before the threads     *)
(* start.                                                                  *)
(***************************************************************************)

\* buildProceduralAssets(store, key, 0): the Polygon and the Position store
\* are cleared, the other three are not; then the robot, entity 0, gets a
\* Position, a Velocity, a HitCounter and a Polygon, and entities 1 and 2,
\* its eyes, a Polygon each, all through Component::insert.  (With
\* numAssets = 0 the two loops, which insert ids from 3 on, do nothing and
\* the key is not used.)
buildProceduralAssets(st) ==
    LET s0 == [st EXCEPT !.Polygon = Component_clear(@),
                         !.Position = Component_clear(@)]
        s1 == With(s0, "Position", 0, Vec2(0, 0))
        s2 == With(s1, "Velocity", 0, Vec2(0, 0))
        s3 == With(s2, "HitCounter", 0, [hits |-> 0])
        s4 == With(s3, "Polygon", 0, Square(-10, -10, 10, 10))
        s5 == With(s4, "Polygon", 1, Square(-5, 5, -3, 7))
    IN With(s5, "Polygon", 2, Square(3, 5, 5, 7))

\* The stores scene generation is called on: the empty one, the scenes, and
\* stores that other inserts have populated.
AssetStores == {EntityStore_new} \cup Scenes \cup CollisionStores

InitAssets == InitSet /\ InitStore /\ InitSys(AssetStores) /\ InitReg /\ InitHarness

\* A call of buildProceduralAssets on the store, the threads not started.
BuildAssets ==
    /\ UNCHANGED <<svars, cvars, rvars, pcall>>
    /\ built < MaxBuilds
    /\ simpc = "check" /\ netpc = "idle" /\ ticks = 0 /\ nreq = 0
    /\ store' = buildProceduralAssets(store)
    /\ tickBase' = store'
    /\ built' = built + 1
    /\ UNCHANGED <<store_mutex, stop, simpc, netpc, req, scene, resp, ticks, nreq>>

\* The specifications: each part runs with the others idle.
Init == InitSet /\ InitStore /\ InitSys({EntityStore_new}) /\ InitReg /\ InitHarness

InitScenes == InitSet /\ InitStore /\ InitSys(Scenes) /\ InitReg /\ InitHarness

SpecReg == Init /\ [][NextReg]_vars

SpecTick == InitTick /\ [][NextTick]_vars

\* The main loop's thread is scheduled as long as it can take a step.
FairTick == InitInputTick /\ [][NextTick]_vars /\ WF_vars(NextTick)

SpecSet == Init /\ [][NextSet]_vars

SpecStore == Init /\ [][NextStore]_vars

SpecSys == InitScenes /\ [][NextSys]_vars

\* The steps of a request handler that has been started.
NetHandler ==
    NetLock \/ NetInputBody \/ NetOutputStep \/ NetOutputDone \/ NetUnlock

\* Both threads are scheduled as long as they can take a step.
FairSys ==
    InitScenes /\ [][NextSys]_vars /\ WF_vars(NextTick) /\ WF_vars(NetHandler)

\* The narrow phase on its own.
SpecPoly == Init /\ [][NextPoly]_vars

\* Scene generation on its own, called up to MaxBuilds times.
SpecAssets == InitAssets /\ [][BuildAssets]_vars

\* The two threads with the main loop running on without bound, started on
\* the empty store of runMainloop or on a scene whose entities stay where
\* they are.
LoopScenes == {EntityStore_new, SceneOverlap}

InitLoop == InitSet /\ InitStore /\ InitSys(LoopScenes) /\ InitReg /\ InitHarness

NextTickLoop == NextTick \/ SimCheckUncounted \/ SimMoveUncounted

NextLoop == NextSys \/ SimCheckUncounted \/ SimMoveUncounted

\* Both threads are scheduled as long as they can take a step; the mutex
\* promises nothing about who gets it.
FairLoop ==
    InitLoop /\ [][NextLoop]_vars /\ WF_vars(NextTickLoop) /\ WF_vars(NetHandler)

(***************************************************************************)
(* Claims about SparseSet, checked under SpecSet.                          *)
(***************************************************************************)

\* C1: after any sequence of insert, erase and clear calls, every id whose
\* sparse entry is not NONE has dense[sparse[id]] = id, and the dense array is
\* as long as the number of non-NONE sparse entries.
C1_SparseDenseInvariant ==
    /\ \A id \in InRange :
          sset.dataIndex[id] # NONE =>
             /\ sset.dataIndex[id] \in 0 .. (Len(sset.data) - 1)
             /\ sset.data[sset.dataIndex[id] + 1] = id
    /\ Len(sset.data) = Cardinality({id \in InRange : sset.dataIndex[id] # NONE})

\* C1 witness: an erase has just moved the last dense element into the slot
\* of an erased element that was not the last one.
C1_Witness ==
    /\ scall.op = "erase" /\ scall.outcome = "ok"
    /\ Len(sbefore.data) = EntityCount
    /\ sbefore.dataIndex[scall.arg] = 0
    /\ Len(sset.data) = EntityCount - 1

\* C5: after insert(e) contains(e) is true; it stays true across every call
\* other than erase(e) (and clear, which the claim does not cover); after
\* erase(e) contains(e) is false.
C5_Step ==
    \A e \in InRange :
       /\ (scall'.op = "insert" /\ scall'.arg = e /\ scall'.outcome = "ok")
             => SparseSet_contains(sset', e)
       /\ (scall'.op = "erase" /\ scall'.arg = e /\ scall'.outcome = "ok")
             => ~SparseSet_contains(sset', e)
       /\ (/\ SparseSet_contains(sset, e)
           /\ scall'.op # "clear"
           /\ ~(scall'.op = "erase" /\ scall'.arg = e))
             => SparseSet_contains(sset', e)

C5_ContainsUntilErase == [][C5_Step]_svars

\* C5 witness: an erase of another id has just moved a present id to a new
\* dense slot, and that id is still contained.
C5_Witness ==
    /\ scall.op = "erase" /\ scall.outcome = "ok"
    /\ SparseSet_contains(sbefore, scall.arg)
    /\ \E e \in InRange \ {scall.arg} :
          /\ SparseSet_contains(sbefore, e)
          /\ SparseSet_contains(sset, e)
          /\ sbefore.dataIndex[e] # sset.dataIndex[e]

\* C6: size() is the number of distinct ids currently present (ids inserted
\* and not erased or cleared since), empty() holds exactly when there are
\* none, contains agrees with presence, and insert of a present id changes
\* neither the size nor the dense order.
C6_SizeCountsPresent ==
    /\ SparseSet_size(sset) = Cardinality(spresent)
    /\ SparseSet_empty(sset) <=> (spresent = {})
    /\ \A id \in Args : SparseSet_contains(sset, id) <=> (id \in spresent)
    /\ (/\ scall.op = "insert" /\ scall.outcome = "ok"
        /\ SparseSet_contains(sbefore, scall.arg))
          => sset = sbefore

\* C6 witness: a present id has just been inserted again into a set of at
\* least two ids.
C6_Witness ==
    /\ scall.op = "insert" /\ scall.outcome = "ok"
    /\ SparseSet_contains(sbefore, scall.arg)
    /\ SparseSet_size(sset) >= 2

\* C7: erase is idempotent: in the state an erase(id) has just produced, a
\* second erase(id) changes neither array, and an erase of an absent id
\* leaves the set as it was.
C7_EraseIdempotent ==
    /\ (scall.op = "erase" /\ scall.outcome = "ok")
          => /\ ~SparseSet_contains(sbefore, scall.arg) => sset = sbefore
             /\ SparseSet_erase(sset, scall.arg) = sset
    /\ \A id \in InRange :
          SparseSet_erase(SparseSet_erase(sset, id), id) = SparseSet_erase(sset, id)

\* C7 witness: an absent id has just been erased from a set that holds at
\* least two other ids.
C7_Witness ==
    /\ scall.op = "erase" /\ scall.outcome = "ok"
    /\ scall.arg \notin spresent
    /\ ~SparseSet_contains(sbefore, scall.arg)
    /\ SparseSet_size(sset) >= 2

\* C10: insert(id), erase(id) and indexFor(id) with id >= N, and idFor(index)
\* with index >= size(), fail with an OutOfRange error and leave the arrays
\* unchanged; contains(id) with id >= N returns false without failing.
C10_OutOfRangePolicy ==
    /\ (scall.op \in {"insert", "erase", "indexFor"} /\ scall.arg >= EntityCount)
          => (scall.outcome = "out_of_range" /\ sset = sbefore)
    /\ (scall.op = "idFor" /\ scall.arg >= SparseSet_size(sbefore))
          => (scall.outcome = "out_of_range" /\ sset = sbefore)
    /\ (scall.op = "contains" /\ scall.arg >= EntityCount)
          => (scall.outcome = "ok" /\ scall.ret = FALSE /\ sset = sbefore)

(***************************************************************************)
(* Claims about Component, checked under SpecStore.                        *)
(***************************************************************************)

\* The id array and the value array of c have the same length.
Aligned(c) == Len(c.data) = Len(c.entities.data)

\* C2: as long as only not-yet-present ids were inserted (erases of present
\* and of absent ids allowed), the id array and the value array have the same
\* length and get(id) returns, for every remaining id, the value stored for
\* it; the ids present are exactly those with a stored value.
C2_ValuesFollowIds ==
    ~cdup =>
       /\ Aligned(comp)
       /\ \A id \in InRange :
             /\ Component_contains(comp, id) <=> (cstored[id] # NONE)
             /\ Component_contains(comp, id) =>
                   Component_get(comp, id) = {<<"ok", cstored[id]>>}

\* C2 witness: an erase has just removed the first of EntityCount ids, and
\* the id moved into its slot carries a value other than the erased one.
C2_Witness ==
    /\ ~cdup
    /\ ccall.op = "erase"
    /\ ccall.arg \in InRange
    /\ Len(cbefore.data) = EntityCount
    /\ SparseSet_indexFor(cbefore.entities, ccall.arg) = 0
    /\ cbefore.data[1] # cbefore.data[EntityCount]
    /\ Len(comp.data) = EntityCount - 1

\* C8 as stated: after insert(id, v) or emplace(id, v), from any reachable
\* store state, get(id) returns v.
C8_RoundTripAnyState ==
    (ccall.op \in {"insert", "emplace"} /\ ccall.outcome = "ok")
       => Component_get(comp, ccall.arg) = {<<"ok", ccall.val>>}

\* C8 amended: after insert(id, v) or emplace(id, v) of an id that was not
\* present, into a store whose id and value arrays had equal length, get(id)
\* returns v.
C8_RoundTripAbsentAligned ==
    (/\ ccall.op \in {"insert", "emplace"} /\ ccall.outcome = "ok"
     /\ ~Component_contains(cbefore, ccall.arg)
     /\ Aligned(cbefore))
       => Component_get(comp, ccall.arg) = {<<"ok", ccall.val>>}

\* C8 witness: an absent id has just been inserted, with a value other than
\* the first stored one, into an aligned store that held two ids.
C8_Witness ==
    /\ ccall.op \in {"insert", "emplace"} /\ ccall.outcome = "ok"
    /\ ~Component_contains(cbefore, ccall.arg)
    /\ Aligned(cbefore)
    /\ Len(cbefore.data) = 2
    /\ ccall.val # cbefore.data[1]
    /\ Component_at(comp, ccall.arg) = ccall.val

\* C9: get(id) / operator[](id) on an id that is not present fails with an
\* out-of-range error and returns no value.
C9_GetAbsentThrows ==
    (ccall.op = "get" /\ ~Component_contains(cbefore, ccall.arg))
       => (ccall.outcome = "out_of_range" /\ ccall.ret = NONE)

\* C11: insert(id, v) / emplace(id, ...) with id >= MaxEntities fails with
\* an OutOfRange error and leaves both the id array and the value array
\* unchanged.
C11_AllOrNothing ==
    (ccall.op \in {"insert", "emplace"} /\ ccall.arg >= EntityCount)
       => (ccall.outcome = "out_of_range" /\ comp = cbefore)

\* C12: insert/emplace of an id that is already present leaves contains and
\* size() unchanged, appends one value, so that the value array is longer than
\* the id array, and get(id) keeps returning the value it returned before
\* (the value stored for id, when no duplicate had been inserted earlier).
C12_DuplicateInsert ==
    (/\ ccall.op \in {"insert", "emplace"} /\ ccall.outcome = "ok"
     /\ Component_contains(cbefore, ccall.arg))
       => /\ \A id \in Args :
                Component_contains(comp, id) <=> Component_contains(cbefore, id)
          /\ Component_size(comp) = Component_size(cbefore)
          /\ comp.entities = cbefore.entities
          /\ comp.data = Append(cbefore.data, ccall.val)
          /\ Len(comp.data) > Len(comp.entities.data)
          /\ \E v \in Values :
                /\ Component_get(cbefore, ccall.arg) = {<<"ok", v>>}
                /\ Component_get(comp, ccall.arg) = {<<"ok", v>>}
                /\ Aligned(cbefore) => v = cstored[ccall.arg]

\* C12 witness: a present id has just been inserted again, with a value other
\* than its own, into an aligned store that holds two ids.
C12_Witness ==
    /\ ccall.op \in {"insert", "emplace"} /\ ccall.outcome = "ok"
    /\ Component_contains(cbefore, ccall.arg)
    /\ Aligned(cbefore)
    /\ Component_size(cbefore) = 2
    /\ ccall.val # Component_at(cbefore, ccall.arg)
    /\ Component_at(comp, ccall.arg) # ccall.val
    /\ Len(comp.data) = 3

(***************************************************************************)
(* Claims about the two threads, checked under SpecSys.                    *)
(***************************************************************************)

SimInTick == simpc \in {"input", "collide", "move", "unlock"}
NetInHandler == netpc \in {"body", "unlock"}

\* What handle_output answers when it reads all of st.
SceneOf(st) ==
    [k \in 1 .. Len(st.Polygon.entities.data) |-> Geometry(st, k - 1)]

\* C3: the two threads are never inside the registry together; the main loop
\* holds the mutex from before handlePlayerInput until after updatePositions
\* of the same tick, and a request handler holds it for its whole read or
\* write of the stores.
C3_MutualExclusion ==
    /\ ~(SimInTick /\ NetInHandler)
    /\ SimInTick => store_mutex = "sim"
    /\ NetInHandler => store_mutex = "net"

\* C3 witness: in a second tick, after the input and before the collision
\* system, a request handler waits for the mutex the main loop holds.
C3_Witness ==
    /\ simpc = "collide" /\ store_mutex = "sim" /\ ticks >= 1
    /\ netpc = "lock"

\* C4: whatever a request handler reads or writes into is a tick-boundary
\* state: the store as the last completed tick (or accepted input) left it,
\* never one with a tick's input or collision effects but not its movement;
\* the scene a Read-scene request answers is the scene of that state.
C4_TickBoundaryReads ==
    /\ NetInHandler => (store = tickBase /\ simpc \notin {"collide", "move"})
    /\ (netpc = "body" /\ req.kind = "output")
          => scene = SubSeq(SceneOf(tickBase), 1, Len(scene))
    /\ (netpc = "unlock" /\ req.kind = "output") => scene = SceneOf(tickBase)

\* C4 witness: a Read-scene request has read the whole scene after a tick
\* that moved a Position.
C4_Witness ==
    /\ netpc = "unlock" /\ req.kind = "output"
    /\ ticks >= 1
    /\ Len(scene) >= 2
    /\ store.Polygon = SceneApart.Polygon
    /\ store.Position # SceneApart.Position
    /\ scene = SceneOf(store)

\* C14: every tick runs handlePlayerInput, then handleCollisions, then
\* updatePositions, once each and in that order, on the state the tick
\* started from; a tick is counted when updatePositions has run, and the
\* first system of the next tick runs only after that, through a new pass of
\* the loop.
C14_Positions ==
    /\ simpc = "input" => store = tickBase
    /\ simpc = "collide" => store = handlePlayerInput(tickBase)
    /\ simpc = "move" => store = handleCollisions(handlePlayerInput(tickBase))
    /\ simpc = "unlock" => store = tickBase

C14_Step ==
    /\ (simpc = "input" /\ simpc' # simpc)
          => (simpc' = "collide" /\ store' = handlePlayerInput(store))
    /\ (simpc = "collide" /\ simpc' # simpc)
          => (simpc' = "move" /\ store' = handleCollisions(store))
    /\ (simpc = "move" /\ simpc' # simpc)
          => (simpc' = "unlock" /\ store' = updatePositions(store))
    /\ (simpc' = "input" /\ simpc # "input") => simpc = "lock"
    /\ (simpc' = "lock" /\ simpc # "lock") => simpc = "check"
    /\ (simpc' = "check" /\ simpc # "check") => simpc = "unlock"
    /\ ticks' = IF simpc = "move" /\ simpc' = "unlock" THEN ticks + 1 ELSE ticks
    /\ (store' # store /\ store_mutex # "net")
          => simpc \in {"input", "collide", "move"}

C14_TickOrder == []C14_Positions /\ [][C14_Step]_vars

\* C14 witness: in the second tick the input system has changed a Velocity
\* that the first tick's collision system had zeroed.
C14_Witness ==
    /\ ticks = 1
    /\ simpc = "collide"
    /\ store # tickBase
    /\ tickBase.HitCounter # SceneOverlap.HitCounter

(***************************************************************************)
(* Claims about the systems, checked under SpecTick: the store at the      *)
(* start of a tick is tickBase.                                            *)
(***************************************************************************)

\* C15: after handlePlayerInput, every id that has both a PlayerInput and a
\* Velocity has Velocity[id] = PlayerInput[id]; the Velocity of every entity
\* without a PlayerInput, and every PlayerInput, Position, HitCounter and
\* Polygon, is unchanged.
C15_InputSystem ==
    simpc = "collide" =>
       /\ \A id \in InRange :
             (Component_contains(tickBase.PlayerInput, id)
                /\ Component_contains(tickBase.Velocity, id))
               => /\ Component_get(store.Velocity, id)
                       = Component_get(tickBase.PlayerInput, id)
                  /\ Component_get(store.Velocity, id)
                       = Component_get(store.PlayerInput, id)
       /\ \A id \in InRange :
             (Component_contains(tickBase.Velocity, id)
                /\ ~Component_contains(tickBase.PlayerInput, id))
               => Component_get(store.Velocity, id)
                     = Component_get(tickBase.Velocity, id)
       /\ store.PlayerInput = tickBase.PlayerInput
       /\ store.Position = tickBase.Position
       /\ store.HitCounter = tickBase.HitCounter
       /\ store.Polygon = tickBase.Polygon

\* C15 witness: the input system has run on a store where two entities have
\* different inputs and a Velocity each, and a third has a Velocity only.
C15_Witness ==
    /\ simpc = "collide"
    /\ \E a, b, c \in InRange :
          /\ Component_contains(tickBase.PlayerInput, a)
          /\ Component_contains(tickBase.PlayerInput, b)
          /\ Component_at(tickBase.PlayerInput, a) # Component_at(tickBase.PlayerInput, b)
          /\ ~Component_contains(tickBase.PlayerInput, c)
          /\ \A id \in {a, b, c} : Component_contains(tickBase.Velocity, id)
          /\ Component_at(store.Velocity, a) = Component_at(tickBase.PlayerInput, a)
          /\ Component_at(store.Velocity, a) # Component_at(tickBase.Velocity, a)

\* The entities that have a PlayerInput but no Velocity in st.
Orphans(st) ==
    {id \in InRange : Component_contains(st.PlayerInput, id)
                         /\ ~Component_contains(st.Velocity, id)}

\* C16: an entity with a PlayerInput but no Velocity does not end the tick:
\* handlePlayerInput creates no Velocity (for it or for anyone), applies the
\* input of every other entity, ...
C16_OrphanSkipped ==
    (simpc = "collide" /\ Orphans(tickBase) # {}) =>
       /\ store.Velocity.entities = tickBase.Velocity.entities
       /\ \A id \in Orphans(tickBase) : ~Component_contains(store.Velocity, id)
       /\ \A id \in InRange \ Orphans(tickBase) :
             Component_contains(tickBase.PlayerInput, id)
               => Component_get(store.Velocity, id)
                     = Component_get(tickBase.PlayerInput, id)

\* ... and the tick goes on: the collision system and the movement system of
\* the same tick run.
C16_TickContinues ==
    \A n \in 0 .. (MaxTicks - 1) :
       (simpc = "input" /\ ticks = n /\ Orphans(store) # {})
          ~> (simpc = "unlock" /\ ticks = n + 1)

C16_OrphanNonFatal == []C16_OrphanSkipped /\ C16_TickContinues

\* C16 witness: the input system has run on a store whose first PlayerInput
\* belongs to an entity without Velocity, and has applied a later one.
C16_Witness ==
    /\ simpc = "collide"
    /\ Len(tickBase.PlayerInput.entities.data) >= 2
    /\ tickBase.PlayerInput.entities.data[1] \in Orphans(tickBase)
    /\ \E id \in InRange \ Orphans(tickBase) :
          /\ Component_contains(tickBase.PlayerInput, id)
          /\ Component_at(store.Velocity, id) = Component_at(tickBase.PlayerInput, id)
          /\ Component_at(store.Velocity, id) # Component_at(tickBase.Velocity, id)

\* The store the collision system of the current tick started from.
BeforeCollisions == handlePlayerInput(tickBase)

\* The bounding box of entity id's polygon in world space: its local vertex
\* extrema offset by the entity's Position.
WorldBox(st, id) ==
    LET box == Polygon_get_aabb(Component_at(st.Polygon, id))
        pos == Component_at(st.Position, id)
    IN [min |-> Vec2(box.min.x + pos.x, box.min.y + pos.y),
        max |-> Vec2(box.max.x + pos.x, box.max.y + pos.y)]

\* The entities b > a whose world-space box overlaps a's.
WorldNeighbours(st, a) ==
    {b \in InRange : /\ a < b
                     /\ Component_contains(st.Polygon, b)
                     /\ Component_contains(st.Position, b)
                     /\ AABB_intersects(WorldBox(st, a), WorldBox(st, b))}

\* C17: the broad phase works in world space: an entity none of whose pairs
\* has overlapping world-space boxes registers no hit and keeps its Velocity,
\* however its local polygon lies to the others'.
C17_BroadPhaseWorldSpace ==
    simpc = "move" =>
       \A a \in InRange :
          (/\ Component_contains(BeforeCollisions.Polygon, a)
           /\ Component_contains(BeforeCollisions.Position, a)
           /\ \A b \in InRange : Component_contains(BeforeCollisions.Polygon, b)
                                    => Component_contains(BeforeCollisions.Position, b)
           /\ WorldNeighbours(BeforeCollisions, a) = {})
             => /\ Component_get(store.HitCounter, a)
                     = Component_get(BeforeCollisions.HitCounter, a)
                /\ Component_get(store.Velocity, a)
                     = Component_get(BeforeCollisions.Velocity, a)

\* The perpendiculars of all edges of poly.
EdgeNormals(poly) ==
    {Polygon_get_edge_normal(poly, i) : i \in 0 .. (Polygon_size(poly) - 1)}

\* The projections of a and b on the axis are disjoint.
SeparatedOn(a, b, axis) ==
    LET pa == Polygon_project_onto_axis(a, axis)
        pb == Polygon_project_onto_axis(b, axis)
    IN pa[2] < pb[1] \/ pb[2] < pa[1]

\* C18: intersects(A, B) is false exactly when the projections of A and B
\* are disjoint on the perpendicular of some edge of A or of some edge of B,
\* and true otherwise (touching included); stated for the pairs the collision
\* system hands to the narrow phase.
C18_AxesOfBothPolygons ==
    simpc = "collide" =>
       \A i, j \in 1 .. Len(store.Polygon.entities.data) :
          LET a == store.Polygon.data[i]
              b == store.Polygon.data[j]
          IN store.Polygon.entities.data[i] < store.Polygon.entities.data[j]
               => (Polygon_intersects(a, b)
                     <=> ~\E axis \in EdgeNormals(a) \cup EdgeNormals(b) :
                             SeparatedOn(a, b, axis))

\* The entities b > a that the two phases confirm as intersecting a.
Confirmed(st, a) ==
    {b \in InRange : /\ a < b
                     /\ Component_contains(st.Polygon, a)
                     /\ Component_contains(st.Polygon, b)
                     /\ Polygon_may_intersect(Component_at(st.Polygon, a),
                                              Component_at(st.Polygon, b))
                     /\ Polygon_intersects(Component_at(st.Polygon, a),
                                           Component_at(st.Polygon, b))}

RECURSIVE Incremented(_, _)
\* hits after n increments by 1 of the unsigned counter.
Incremented(hits, n) ==
    IF n = 0 THEN hits ELSE HitCounter_increment(Incremented(hits, n - 1))

\* C19: for each confirmed pair (a, b), a < b: when a owns a HitCounter its
\* count goes up by 1 (as an unsigned counter) and, when it also owns a
\* Velocity, that becomes (0,0); when a owns no HitCounter its Velocity is
\* not changed; nothing of b changes on account of the pair: after the pass
\* each counter has gone up once per pair in which its owner is the lower id,
\* and nothing else has changed.
C19_AsymmetricEffect ==
    simpc = "move" =>
       LET pre == BeforeCollisions
       IN /\ \A a \in InRange :
                Component_contains(pre.HitCounter, a) =>
                   Component_get(store.HitCounter, a) =
                      {<<"ok", [hits |-> Incremented(Component_at(pre.HitCounter, a).hits,
                                                     Cardinality(Confirmed(pre, a)))]>>}
          /\ \A a \in InRange :
                Component_contains(pre.Velocity, a) =>
                   Component_get(store.Velocity, a) =
                      IF Component_contains(pre.HitCounter, a) /\ Confirmed(pre, a) # {}
                      THEN {<<"ok", Vec2(0, 0)>>}
                      ELSE Component_get(pre.Velocity, a)
          /\ store.HitCounter.entities = pre.HitCounter.entities
          /\ store.Velocity.entities = pre.Velocity.entities
          /\ store.Position = pre.Position
          /\ store.PlayerInput = pre.PlayerInput
          /\ store.Polygon = pre.Polygon

\* C19 witness: the pass has met a pair whose lower entity has a Velocity and
\* no HitCounter, and a pair whose lower entity has both and whose higher
\* entity has both too and is the lower entity of no pair.
C19_Witness ==
    /\ simpc = "move"
    /\ \E a, b \in InRange :
          /\ b \in Confirmed(BeforeCollisions, a)
          /\ ~Component_contains(BeforeCollisions.HitCounter, a)
          /\ Component_contains(BeforeCollisions.Velocity, a)
          /\ Component_at(store.Velocity, a) # Vec2(0, 0)
    /\ \E a, b \in InRange :
          /\ b \in Confirmed(BeforeCollisions, a)
          /\ Confirmed(BeforeCollisions, b) = {}
          /\ \A e \in {a, b} : /\ Component_contains(BeforeCollisions.HitCounter, e)
                                /\ Component_contains(BeforeCollisions.Velocity, e)
          /\ Component_at(store.HitCounter, a).hits
                = Component_at(BeforeCollisions.HitCounter, a).hits + 1
          /\ Component_at(store.Velocity, a) = Vec2(0, 0)
          /\ Component_at(store.HitCounter, b) = Component_at(BeforeCollisions.HitCounter, b)
          /\ Component_at(store.Velocity, b) # Vec2(0, 0)

\* C20: no step makes the hit count of an entity smaller.
C20_Step ==
    \A id \in InRange :
       Component_contains(store.HitCounter, id) =>
          /\ Component_contains(store'.HitCounter, id)
          /\ Component_at(store'.HitCounter, id).hits
                >= Component_at(store.HitCounter, id).hits

C20_HitsNeverDecrease == [][C20_Step]_vars

(***************************************************************************)
(* Claims about the registry, checked under SpecReg.                       *)
(***************************************************************************)

\* C13: get<Position>(), get<Velocity>(), get<PlayerInput>(),
\* get<HitCounter>() and get<Polygon>() denote five different stores: a call
\* through any of them reaches a store, no two of them reach the same one,
\* and an insert, overwrite, erase or clear through one leaves the other four
\* stores unchanged.
C13_FiveDistinctStores ==
    /\ \A kind \in Kinds : Components_get(kind).outcome = "ok"
    /\ \A k1, k2 \in Kinds :
          k1 # k2 => Components_get(k1).element # Components_get(k2).element
    /\ rcall.op # "new" =>
          /\ rcall.outcome = "ok"
          /\ \A other \in Kinds \ {rcall.kind} : reg[other] = rbefore[other]

(***************************************************************************)
(* Claims about what the systems and the handlers leave alone.             *)
(***************************************************************************)

\* C21: a step changes the HitCounter store only when it is the collision
\* system's and some pair whose lower entity owns a counter passes both the
\* broad and the narrow phase: the input system, the movement system,
\* Apply input and Read scene leave every HitCounter as it is, and so does
\* the collision system when no pair passes both phases.
C21_Step ==
    /\ store'.HitCounter # store.HitCounter
          => /\ simpc = "collide" /\ simpc' = "move"
             /\ \E a \in InRange : /\ Component_contains(store.HitCounter, a)
                                   /\ Confirmed(store, a) # {}
    /\ (simpc = "collide" /\ \A a \in InRange : Confirmed(store, a) = {})
          => store'.HitCounter = store.HitCounter

C21_OnlyCollisionsCount == [][C21_Step]_vars

\* C21 witness: in a second tick the collision system has run on a scene
\* without overlapping polygons, after an accepted Apply input and a
\* movement, and the robot's counter is still 0.
C21_Witness ==
    /\ simpc = "move" /\ ticks = 1
    /\ store.Polygon = SceneApart.Polygon
    /\ store.Position # SceneApart.Position
    /\ Component_contains(store.PlayerInput, 0)
    /\ \A a \in InRange : Confirmed(store, a) = {}
    /\ Component_at(store.HitCounter, 0).hits = 0

(***************************************************************************)
(* Claims about the movement system, checked under SpecMove.               *)
(***************************************************************************)

\* p lies in the world and differs from sum by a multiple of the world's
\* width, on both axes.
WrappedFrom(p, sum) ==
    /\ WORLD_MIN_X <= p.x /\ p.x < WORLD_MAX_X
    /\ WORLD_MIN_Y <= p.y /\ p.y < WORLD_MAX_Y
    /\ (p.x - sum.x) % (WORLD_MAX_X - WORLD_MIN_X) = 0
    /\ (p.y - sum.y) % (WORLD_MAX_Y - WORLD_MIN_Y) = 0

\* The entities that have both a Velocity and a Position in st.
Movers(st) ==
    {id \in InRange : Component_contains(st.Velocity, id)
                         /\ Component_contains(st.Position, id)}

\* C22: updatePositions returns, and for every id that has both Velocity and
\* Position each axis value of the new Position lies in [-120, 120) and is
\* congruent to old value + velocity modulo 240, whatever the sum.
C22_Step ==
    (simpc = "move" /\ simpc' # "move") =>
       /\ simpc' = "unlock"
       /\ \A id \in Movers(store) :
             LET old == Component_at(store.Position, id)
                 velocity == Component_at(store.Velocity, id)
             IN WrappedFrom(Component_at(store'.Position, id),
                            Vec2(old.x + velocity.x, old.y + velocity.y))

C22_MovementWraps == [][C22_Step]_vars

\* C23: updatePositions changes only the Positions of entities that also
\* have a Velocity: it creates no Position (an entity with a Velocity and no
\* Position is passed over), an entity with a Position and no Velocity keeps
\* its Position as it is, in the world or not, and the Velocity store and
\* the other stores are left as they are.
C23_Step ==
    (simpc = "move" /\ simpc' # "move") =>
       /\ store'.Velocity = store.Velocity
       /\ store'.Position.entities = store.Position.entities
       /\ Len(store'.Position.data) = Len(store.Position.data)
       /\ \A id \in InRange :
             (Component_contains(store.Position, id) /\ id \notin Movers(store))
                => Component_get(store'.Position, id) = Component_get(store.Position, id)
       /\ store'.PlayerInput = store.PlayerInput
       /\ store'.HitCounter = store.HitCounter
       /\ store'.Polygon = store.Polygon

C23_MovementFrame == [][C23_Step]_vars

\* C23 witness: the first movement is over; one entity has a Velocity and
\* still no Position, one has no Velocity and is still at the Position
\* outside the world it started from, and one has been moved across the
\* world's edge.
C23_Witness ==
    /\ simpc = "unlock" /\ ticks = 1
    /\ \E a, b, c \in InRange :
          /\ Component_contains(store.Velocity, a)
          /\ ~Component_contains(store.Position, a)
          /\ ~Component_contains(store.Velocity, b)
          /\ Component_contains(store.Position, b)
          /\ Component_at(store.Position, b) = Vec2(300, -500)
          /\ c \in Movers(store)
          /\ Component_at(store.Velocity, c) = Vec2(5, -1)
          /\ Component_at(store.Position, c) = Vec2(-116, 119)

(***************************************************************************)
(* Claims about cancellation, checked under FairSys.                       *)
(***************************************************************************)

\* C24: the main loop tests the stop signal only at the loop's head, where it
\* does not hold the lock, and leaves only from there; ...
C24_Step ==
    /\ stop => stop'
    /\ (simpc' = "done" /\ simpc # "done")
          => (simpc = "check" /\ stop /\ store_mutex # "sim")
    /\ (simpc = "check" /\ simpc' # "check")
          => simpc' = IF stop THEN "done" ELSE "lock"
    /\ (simpc = "lock" /\ simpc' # "lock") => simpc' = "input"
    /\ (simpc = "input" /\ simpc' # "input")
          => (simpc' = "collide" /\ store' = handlePlayerInput(store))
    /\ (simpc = "collide" /\ simpc' # "collide")
          => (simpc' = "move" /\ store' = handleCollisions(store))
    /\ (simpc = "move" /\ simpc' # "move")
          => (simpc' = "unlock" /\ store' = updatePositions(store))
    /\ (simpc = "unlock" /\ simpc' # "unlock") => simpc' = "check"

C24_CheckOutsideLock ==
    simpc \in {"check", "done"} => store_mutex # "sim"

\* ... a tick that has started runs its three systems to the end, stop
\* requested or not, and is counted when the movement system returns; ...
C24_TickCompletes == (simpc = "input") ~> (simpc = "unlock")

\* ... once stop is requested at most one more tick is completed: no tick
\* starts from the loop's head, and the tick under way is counted once, at
\* the end of the movement system; ...
C24_AtMostOneMore ==
    /\ (stop /\ simpc = "check") => simpc' \in {"check", "done"}
    /\ ticks' # ticks => (simpc = "move" /\ simpc' = "unlock"
                             /\ ticks' = ticks + 1)
    /\ (simpc = "move" /\ simpc' = "unlock") => ticks' = ticks + 1

\* ... and the main loop then leaves, the lock released.
C24_Exits == stop ~> (simpc = "done" /\ store_mutex # "sim")

C24_CooperativeCancellation ==
    /\ []C24_CheckOutsideLock
    /\ [][C24_Step]_vars
    /\ [][C24_AtMostOneMore]_vars
    /\ C24_TickCompletes
    /\ C24_Exits

\* C24 witness: stop has been requested, and the tick that was under way, the
\* second one, has got as far as the movement system.
C24_Witness ==
    /\ stop
    /\ simpc = "move" /\ store_mutex = "sim"
    /\ ticks = 1

(***************************************************************************)
(* Claims about the request handlers, checked under SpecSys.               *)
(***************************************************************************)

\* A handler step that accepts an Apply-input request.
AcceptsInput ==
    /\ netpc = "body" /\ req.kind = "input" /\ ParseInput(req) = "ok"
    /\ netpc' = "unlock"

\* C25: the PlayerInput store is empty until the first Apply-input request
\* is accepted and holds exactly entity 0 from then on, with one value, the
\* (x, y) of the request accepted last: accepting a request makes it so, and
\* no other step (of a tick or of a handler) changes the store.
C25_WellFormed ==
    /\ Aligned(store.PlayerInput)
    /\ \/ store.PlayerInput = Component_new
       \/ /\ store.PlayerInput.entities.data = <<0>>
          /\ Component_contains(store.PlayerInput, 0)
          /\ \A id \in InRange \ {0} : ~Component_contains(store.PlayerInput, id)

C25_Step ==
    IF AcceptsInput
    THEN /\ Component_contains(store'.PlayerInput, 0)
         /\ store'.PlayerInput.data = <<Vec2(req.x, req.y)>>
         /\ resp' = 200
    ELSE store'.PlayerInput = store.PlayerInput

C25_ApplyInputWellFormed == []C25_WellFormed /\ [][C25_Step]_vars

\* C25 witness: a second request has been accepted after a tick that applied
\* the first: entity 0's input is the second request's, its Velocity still
\* the first's, and the store holds one value.
C25_Witness ==
    /\ nreq = 2 /\ resp = 200 /\ ticks >= 1
    /\ store.PlayerInput.entities.data = <<0>>
    /\ store.PlayerInput.data = <<Vec2(0, -1)>>
    /\ Component_contains(store.Velocity, 0)
    /\ Component_at(store.Velocity, 0) = Vec2(1, 0)

\* A body that Apply input must reject: no JSON object with a number under
\* "x" and a number under "y".
Malformed(r) == r.json # "object" \/ r.xf # "number" \/ r.yf # "number"

\* C26: the handling of a malformed Apply-input request ends with an error
\* response and with every store as it was; when x is a number and y is not,
\* x is not written either.
C26_Step ==
    (/\ netpc = "body" /\ req.kind = "input" /\ Malformed(req)
     /\ netpc' # netpc)
       => /\ store' = store
          /\ resp' = 400
          /\ netpc' = "idle"
          /\ store_mutex' = "free"

C26_MalformedRejected == [][C26_Step]_vars

\* C26 witness: a request with a number under x and no number under y has
\* been answered 400 after an accepted one, whose input entity 0 still has.
C26_Witness ==
    /\ resp = 400 /\ netpc = "idle" /\ nreq = 2
    /\ req.json = "object" /\ req.xf = "number" /\ req.yf # "number"
    /\ Component_contains(store.PlayerInput, 0)
    /\ Component_at(store.PlayerInput, 0).x # req.x

\* C27: the scene a Read-scene request answers has one geometry per entity
\* of the Polygon store, in the store's order; each carries the entity's
\* local vertices in their order, and a position exactly when the entity has
\* a Position, which is its current one; ...
C27_SceneComplete ==
    (netpc = "unlock" /\ req.kind = "output") =>
       /\ Len(scene) = Cardinality({id \in InRange : Component_contains(store.Polygon, id)})
       /\ \A k \in 1 .. Len(scene) :
             LET id == SparseSet_idFor(store.Polygon.entities, k - 1)
                 poly == Component_at(store.Polygon, id)
             IN /\ scene[k].vertices =
                      [j \in 1 .. Polygon_size(poly) |->
                          <<poly.vertices_x[j], poly.vertices_y[j]>>]
                /\ Component_contains(store.Position, id)
                      => scene[k].position = <<Component_at(store.Position, id).x,
                                               Component_at(store.Position, id).y>>
                /\ ~Component_contains(store.Position, id)
                      => scene[k].position = <<>>

\* ... and no step made while the request is handled changes a store.
C27_Step ==
    (NetInHandler /\ req.kind = "output") => store' = store

C27_ReadScene == []C27_SceneComplete /\ [][C27_Step]_vars

\* C27 witness: a Read-scene request has been answered after a tick, on the
\* store whose Polygon ids are in the order 1, 0, 2: the first geometry is
\* entity 1's, with its position, and the last has no position.
C27_Witness ==
    /\ netpc = "unlock" /\ req.kind = "output" /\ resp = 200
    /\ ticks >= 1
    /\ Len(scene) = 3
    /\ scene[1].vertices = <<<<1, 1>>, <<3, 1>>, <<3, 3>>, <<1, 3>>>>
    /\ scene[1].position = <<50, 50>>
    /\ scene[2].position = <<0, 0>>
    /\ scene[3].position = <<>>

(***************************************************************************)
(* More claims about the systems, checked under SpecTick.                  *)
(***************************************************************************)

\* C28: a polygon with fewer than 3 vertices does not collide: an entity all
\* of whose pairs (with higher ids) have such a polygon on either side
\* registers no hit and keeps its Velocity.
C28_DegenerateNeverCollides ==
    simpc = "move" =>
       LET pre == BeforeCollisions
           Proper(id) == Polygon_size(Component_at(pre.Polygon, id)) >= 3
       IN \A a \in InRange :
             (/\ Component_contains(pre.Polygon, a)
              /\ \A b \in InRange :
                    (a < b /\ Component_contains(pre.Polygon, b))
                       => (~Proper(a) \/ ~Proper(b)))
                => /\ Component_get(store.HitCounter, a)
                        = Component_get(pre.HitCounter, a)
                   /\ Component_get(store.Velocity, a)
                        = Component_get(pre.Velocity, a)

\* C29: no system creates or destroys a component: each step of a tick
\* leaves the id array and the number of values of each of the five stores
\* as they were, and the Polygon and PlayerInput stores altogether; only
\* values of the Velocity, HitCounter and Position stores change.
C29_Step ==
    simpc \in {"input", "collide", "move"} =>
       /\ \A kind \in Kinds :
             /\ store'[kind].entities = store[kind].entities
             /\ Len(store'[kind].data) = Len(store[kind].data)
       /\ store'.Polygon = store.Polygon
       /\ store'.PlayerInput = store.PlayerInput

C29_NoComponentCreatedOrDestroyed == [][C29_Step]_vars

\* C29 witness: a tick is over in which an entity was hit (its count is 1,
\* its Velocity (0, 0)) and another entity moved from where it started by
\* its Velocity; the Polygon store still holds three entities.
C29_Witness ==
    /\ simpc = "unlock" /\ ticks = 1
    /\ Len(store.Polygon.entities.data) = 3
    /\ store.Position.entities = PositionsApart.entities
    /\ \E a, b \in InRange :
          /\ Component_contains(store.HitCounter, a)
          /\ Component_at(store.HitCounter, a).hits = 1
          /\ Component_contains(store.Velocity, a)
          /\ Component_at(store.Velocity, a) = Vec2(0, 0)
          /\ Component_contains(store.Velocity, b)
          /\ Component_at(store.Velocity, b) = Vec2(1, 1)
          /\ Component_at(store.Position, b) = Vec2(50 * b - 99, 1)

(***************************************************************************)
(* More claims about Component, checked under SpecStore.                   *)
(***************************************************************************)

\* C30: size() is the number of distinct ids present (inserted and not
\* erased or cleared since, however often they were inserted), empty() holds
\* exactly when size() is 0, contains(id) holds exactly for the ids present;
\* after clear() the store is empty, contains no id, has an empty value
\* array and is in the state of a newly constructed store.
C30_MirrorsSparseSet ==
    LET present == {id \in InRange : cstored[id] # NONE}
    IN /\ Component_size(comp) = Cardinality(present)
       /\ Component_size(comp) = SparseSet_size(comp.entities)
       /\ Component_empty(comp) <=> (Component_size(comp) = 0)
       /\ \A id \in Args : Component_contains(comp, id) <=> (id \in present)
       /\ ccall.op = "clear" =>
             /\ Component_empty(comp) /\ Component_size(comp) = 0
             /\ \A id \in Args : ~Component_contains(comp, id)
             /\ comp.data = <<>>
             /\ comp = Component_new

\* C30 witness: clear() has just emptied a store that held two ids and, after
\* a duplicate insert, three values.
C30_Witness ==
    /\ ccall.op = "clear"
    /\ Component_size(cbefore) = 2
    /\ Len(cbefore.data) = 3
    /\ Component_empty(comp)

(***************************************************************************)
(* Claims about the collision pass's pairs, checked under SpecTick.        *)
(***************************************************************************)

\* C31: one pass of handleCollisions tests every unordered pair of distinct
\* entities with a Polygon exactly once, as (a, b) with a < b, whatever the
\* order of the dense array, and never a pair (a, a); so after the pass the
\* counter of an entity a that has one has gone up (as an unsigned counter)
\* once per tested pair (a, b) whose polygons the two phases find
\* intersecting.
C31_PairEnumeration ==
    simpc = "move" =>
       LET pre == BeforeCollisions
           pairs == handleCollisions_pairs(pre)
           Found(k) ==
              /\ Polygon_may_intersect(Component_at(pre.Polygon, pairs[k][1]),
                                       Component_at(pre.Polygon, pairs[k][2]))
              /\ Polygon_intersects(Component_at(pre.Polygon, pairs[k][1]),
                                    Component_at(pre.Polygon, pairs[k][2]))
       IN /\ \A k \in 1 .. Len(pairs) : pairs[k][1] < pairs[k][2]
          /\ \A k, l \in 1 .. Len(pairs) : k # l => pairs[k] # pairs[l]
          /\ {pairs[k] : k \in 1 .. Len(pairs)}
                = {p \in InRange \X InRange :
                      /\ p[1] < p[2]
                      /\ Component_contains(pre.Polygon, p[1])
                      /\ Component_contains(pre.Polygon, p[2])}
          /\ \A a \in InRange :
                Component_contains(pre.HitCounter, a) =>
                   /\ Component_contains(store.HitCounter, a)
                   /\ Component_at(store.HitCounter, a).hits
                         = Incremented(Component_at(pre.HitCounter, a).hits,
                              Cardinality({k \in 1 .. Len(pairs) :
                                              pairs[k][1] = a /\ Found(k)}))

\* C31 witness: three polygons inserted in descending order of ids, all
\* three pairs tested, and entity 0, whose polygon is found intersecting both
\* others, has gained two hits in the first pass.
C31_Witness ==
    /\ simpc = "move" /\ ticks = 0
    /\ BeforeCollisions.Polygon.entities.data = <<2, 1, 0>>
    /\ Len(handleCollisions_pairs(BeforeCollisions)) = 3
    /\ Component_contains(BeforeCollisions.HitCounter, 0)
    /\ Component_at(BeforeCollisions.HitCounter, 0).hits = 0
    /\ Component_at(store.HitCounter, 0).hits = 2

(***************************************************************************)
(* Claims about the dense order of SparseSet, checked under SpecSet.       *)
(***************************************************************************)

\* C32: insert of an absent id puts it at the dense index that was size()
\* and leaves the index of every other id as it was; erase of a present id
\* moves only the id that was last in the dense array, into the slot left
\* free, with its sparse entry updated, and every other remaining id keeps
\* its dense index.
C32_SwapAndPopFrame ==
    /\ (/\ scall.op = "insert" /\ scall.outcome = "ok"
        /\ ~SparseSet_contains(sbefore, scall.arg))
          => /\ SparseSet_indexFor(sset, scall.arg) = SparseSet_size(sbefore)
             /\ SparseSet_idFor(sset, SparseSet_size(sbefore)) = scall.arg
             /\ SparseSet_size(sset) = SparseSet_size(sbefore) + 1
             /\ \A e \in InRange \ {scall.arg} :
                   /\ SparseSet_indexFor(sset, e) = SparseSet_indexFor(sbefore, e)
                   /\ SparseSet_contains(sbefore, e) =>
                         SparseSet_idFor(sset, SparseSet_indexFor(sset, e)) = e
    /\ (/\ scall.op = "erase" /\ scall.outcome = "ok"
        /\ SparseSet_contains(sbefore, scall.arg))
          => LET lastValue == SparseSet_idFor(sbefore, SparseSet_size(sbefore) - 1)
                 index == SparseSet_indexFor(sbefore, scall.arg)
             IN /\ SparseSet_size(sset) = SparseSet_size(sbefore) - 1
                /\ \A e \in InRange \ {scall.arg} :
                      /\ SparseSet_indexFor(sset, e) =
                            IF e = lastValue THEN index
                            ELSE SparseSet_indexFor(sbefore, e)
                      /\ SparseSet_contains(sbefore, e) =>
                            SparseSet_idFor(sset, SparseSet_indexFor(sset, e)) = e

\* C32 witness: of three present ids the one in the middle of the dense
\* array has been erased; the last one has moved into its slot and the first
\* one is where it was.
C32_Witness ==
    /\ scall.op = "erase" /\ scall.outcome = "ok"
    /\ SparseSet_size(sbefore) = 3
    /\ SparseSet_indexFor(sbefore, scall.arg) = 1
    /\ SparseSet_indexFor(sset, SparseSet_idFor(sbefore, 2)) = 1
    /\ SparseSet_indexFor(sset, SparseSet_idFor(sbefore, 0)) = 0
    /\ SparseSet_size(sset) = 2

(***************************************************************************)
(* Claims about iteration, checked under SpecStore.                        *)
(***************************************************************************)

\* C33: iterating the SparseSet of ids yields every present id exactly once
\* and nothing else, size() elements in all; and iterating a Component into
\* which no present id was inserted again yields exactly one <<id, value>>
\* pair per present id, the value being what get(id) returns, in the order
\* of the SparseSet's dense array.
C33_IterationExact ==
    LET ids == SparseSet_iterate(comp.entities)
    IN /\ Len(ids) = SparseSet_size(comp.entities)
       /\ \A k \in 1 .. Len(ids) : ids[k] \in InRange
       /\ \A id \in InRange :
             Cardinality({k \in 1 .. Len(ids) : ids[k] = id})
                = IF SparseSet_contains(comp.entities, id) THEN 1 ELSE 0
       /\ ~cdup =>
             /\ Cardinality(Component_iterate(comp)) = 1
             /\ \A walk \in Component_iterate(comp) :
                   /\ walk[1] = "ok"
                   /\ Len(walk[2]) = Len(ids)
                   /\ \A k \in 1 .. Len(ids) :
                         /\ walk[2][k][1] = ids[k]
                         /\ Component_get(comp, ids[k]) = {<<"ok", walk[2][k][2]>>}

\* C33 witness: an erase has left two ids in the dense array in descending
\* order, with different values, and no present id was ever inserted again.
C33_Witness ==
    /\ ~cdup
    /\ ccall.op = "erase"
    /\ Len(cbefore.data) = 3
    /\ Len(SparseSet_iterate(comp.entities)) = 2
    /\ SparseSet_iterate(comp.entities)[1] > SparseSet_iterate(comp.entities)[2]
    /\ \E walk \in Component_iterate(comp) : walk[2][1][2] # walk[2][2][2]

(***************************************************************************)
(* Claims about the lock, checked under SpecSys and FairSys.               *)
(***************************************************************************)

\* C34: the lock is released on every exit path: whenever the main loop is
\* not inside a tick and the REST thread is not inside a handler's try block
\* the mutex is free; a handler that leaves through its catch clause has
\* released it by then, and every step that takes a thread out of its
\* locked region leaves the mutex free.
C34_Step ==
    /\ (NetInHandler /\ ~NetInHandler') => store_mutex' = "free"
    /\ (SimInTick /\ ~SimInTick') => store_mutex' = "free"
    /\ (netpc = "body" /\ netpc' = "idle")
          => (ParseInput(req) # "ok" /\ resp' = 400 /\ store' = store)

C34_Free ==
    /\ (~SimInTick /\ ~NetInHandler) => store_mutex = "free"
    /\ store_mutex = "sim" => SimInTick
    /\ store_mutex = "net" => NetInHandler

C34_LockReleasedOnEveryExit == []C34_Free /\ [][C34_Step]_vars

\* C34 witness: a handler has rejected a malformed Apply-input request with
\* 400, and the main loop, about to lock, finds the mutex free.
C34_Witness ==
    /\ req.kind = "input" /\ ParseInput(req) # "ok"
    /\ resp = 400 /\ netpc = "idle"
    /\ simpc = "lock" /\ ticks >= 1
    /\ store_mutex = "free"

\* C35: the two threads cannot deadlock: a thread that is inside its locked
\* region always has a step to take, whatever the other thread does, and a
\* thread at its lock statement has one as soon as the mutex is free: taking
\* the mutex is the only step that waits; ...
C35_OnlyLockBlocks ==
    /\ SimInTick => ENABLED NextTick
    /\ NetInHandler => ENABLED NetHandler
    /\ (simpc = "lock" /\ store_mutex = "free") => ENABLED SimLock
    /\ (netpc = "lock" /\ store_mutex = "free") => ENABLED NetLock
    /\ (simpc = "lock" /\ store_mutex # "free") => store_mutex = "net"
    /\ (netpc = "lock" /\ store_mutex # "free") => store_mutex = "sim"

\* ... so whichever thread holds the mutex runs on to release it, ...
C35_SimReleases == (store_mutex = "sim") ~> (store_mutex # "sim")
C35_NetReleases == (store_mutex = "net") ~> (store_mutex # "net")

\* ... and a main loop that was waiting for it can then take it.
C35_NoDeadlock ==
    /\ []C35_OnlyLockBlocks
    /\ C35_SimReleases
    /\ C35_NetReleases

\* C35 witness: the main loop waits at its lock statement, a tick done, for
\* the mutex that a Read-scene handler holds in the middle of its loop.
C35_Witness ==
    /\ simpc = "lock" /\ ticks >= 1
    /\ store_mutex = "net"
    /\ netpc = "body" /\ req.kind = "output"
    /\ Len(scene) = 1

(***************************************************************************)
(* Claims about waiting for the lock, checked under FairLoop.              *)
(***************************************************************************)

\* C36: a request handler that waits for the mutex while the main loop
\* ticks on without pause gets the mutex in the end, given only that each
\* thread keeps taking steps when it can.
C36_BoundedWait == (netpc = "lock") ~> (netpc = "body")

(***************************************************************************)
(* Claims about a hit and the movement of the same tick, checked under     *)
(* SpecTick.                                                               *)
(***************************************************************************)

\* The entities that have a HitCounter, a Velocity and a Position inside the
\* world when the tick starts from st.
InsideOwners(st) ==
    {a \in InRange :
        /\ Component_contains(st.HitCounter, a)
        /\ Component_contains(st.Velocity, a)
        /\ Component_contains(st.Position, a)
        /\ LET p == Component_at(st.Position, a)
           IN /\ WORLD_MIN_X <= p.x /\ p.x < WORLD_MAX_X
              /\ WORLD_MIN_Y <= p.y /\ p.y < WORLD_MAX_Y}

\* C37: an entity with a HitCounter, a Velocity and a Position inside the
\* world that is the lower id of a pair found intersecting in a tick has
\* Velocity (0,0) when the movement system starts, and the movement system
\* of that tick leaves its Position as it was when the tick started.
C37_Step ==
    (simpc = "move" /\ simpc' = "unlock") =>
       \A a \in InsideOwners(tickBase) :
          Confirmed(BeforeCollisions, a) # {} =>
             /\ Component_at(store.Velocity, a) = Vec2(0, 0)
             /\ Component_contains(store'.Position, a)
             /\ Component_at(store'.Position, a) = Component_at(tickBase.Position, a)

C37_HitStopsMovement == [][C37_Step]_vars

\* C37 witness: the first tick is over; entity 0, which started it with
\* Velocity (1,1), was hit once and is where it started, at (-100, 0), its
\* Velocity (0,0); entity 2, not hit, has moved from (0, 0) to (1, 1).
C37_Witness ==
    /\ simpc = "unlock" /\ ticks = 1
    /\ 0 \in InsideOwners(store)
    /\ Component_at(store.HitCounter, 0).hits = 1
    /\ Component_at(store.Velocity, 0) = Vec2(0, 0)
    /\ Component_at(store.Position, 0) = Vec2(-100, 0)
    /\ Component_contains(store.Velocity, 2)
    /\ Component_at(store.Velocity, 2) = Vec2(1, 1)
    /\ Component_at(store.Position, 2) = Vec2(1, 1)

(***************************************************************************)
(* Claims about the narrow phase, checked under SpecTick and SpecPoly.     *)
(***************************************************************************)

\* C38: the narrow phase decides a pair the same way from either side: for
\* any two polygons of the store with at least three vertices each,
\* A.intersects(B) equals B.intersects(A).
C38_NarrowPhaseSymmetric ==
    \A a, b \in InRange :
       (/\ Component_contains(store.Polygon, a)
        /\ Component_contains(store.Polygon, b)
        /\ Polygon_size(Component_at(store.Polygon, a)) >= 3
        /\ Polygon_size(Component_at(store.Polygon, b)) >= 3)
          => (Polygon_intersects(Component_at(store.Polygon, a),
                                 Component_at(store.Polygon, b))
                <=> Polygon_intersects(Component_at(store.Polygon, b),
                                       Component_at(store.Polygon, a)))

\* C39: during A.intersects(B) every edge index used to read vertices of a
\* polygon is below that polygon's vertex count, whatever the two vertex
\* counts are, also when B has more vertices than A.  (Only the receiver's
\* vertices are read by index.)
C39_IndexSafe ==
    pcall.result # "none" => pcall.index < Polygon_size(pcall.this)

(***************************************************************************)
(* Claims about scene generation, checked under SpecAssets.                *)
(***************************************************************************)

\* C40: after buildProceduralAssets, in each of the five stores the value
\* array is as long as the id array, and entity 0 has a Position, a
\* Velocity, a HitCounter and a Polygon, one value each; also when the store
\* was populated before the call, by an earlier call or otherwise.
C40_ScenesAligned ==
    built >= 1 =>
       /\ \A kind \in {"Position", "Velocity", "PlayerInput", "HitCounter", "Polygon"} :
             Aligned(store[kind])
       /\ \A kind \in {"Position", "Velocity", "HitCounter", "Polygon"} :
             /\ Component_contains(store[kind], 0)
             /\ Len(store[kind].data) = Component_size(store[kind])

=============================================================================
